---- MODULE Spec2Model ----
(***************************************************************************)
(* Order view controller of the Complete Order plugin: order search with   *)
(* enrichment (onFilterPress), row selection (onRadioSelect) and the two   *)
(* order-completion workflows (onCompleteOrder):                           *)
(*   "basic"     first controller of src/OrderView.controller.js (search   *)
(*               only: no selection, no completion)                        *)
(*   "worklist"  second controller of src/OrderView.controller.js          *)
(*   "parent"    controller of src/unnamed/part_000                        *)
(* Strings that the code searches with includes() are sequences of         *)
(* one-character strings; enumeration-like strings are TLA+ strings.       *)
(***************************************************************************)
EXTENDS Integers, Sequences, FiniteSets, TLC

VARIABLES
    variant,                  \* which controller is loaded
    backend,                  \* upstream order list (content of the list API)
    filter,                   \* values of the filter input controls
    validation,               \* verdict of the last onFilterPress validation
    orders,                   \* orderModel>/orders
    selectedOrderNo,          \* orderModel>/selectedOrderNo
    selectedExecutionStatus,  \* orderModel>/selectedExecutionStatus
    oOrderNumber,             \* module-level variable (worklist controller)
    oParentSFCNumber,         \* module-level variable (worklist controller)
    search,                   \* searches in flight, by slot
    attempt                   \* completion attempts, by slot

vars == <<variant, backend, filter, validation, orders, selectedOrderNo,
          selectedExecutionStatus, oOrderNumber, oParentSFCNumber, search, attempt>>

(***************************************************************************)
(* Bounds                                                                  *)
(***************************************************************************)
MaxWorklist == 2    \* length of an SFC worklist response
MaxSearches == 2    \* searches in flight at once
MaxAttempts == 2    \* completion attempts in flight at once

SearchIds == 1..MaxSearches
AttemptIds == 1..MaxAttempts

(***************************************************************************)
(* Strings                                                                 *)
(***************************************************************************)
EMPTY == <<>>                 \* ""
DASH == <<"-">>               \* "-"
UNDEF == "undefined"          \* a property that is absent
OA == <<"A">>                 \* order numbers
OB == <<"B">>
OC == <<"C">>
SA1 == <<"A", "1">>           \* SFC identifiers
SA2 == <<"A", "2">>
SC1 == <<"C", "1">>
SX == <<"X">>

\* String.prototype.includes
Includes(s, sub) ==
    \E i \in 0..(Len(s) - Len(sub)) : SubSeq(s, i + 1, i + Len(sub)) = sub

SeqsUpTo(S, n) == UNION {[1..k -> S] : k \in 0..n}

\* String(x).toUpperCase() on the status descriptions of the model
ToUpperCase(s) == IF s = "new" THEN "NEW" ELSE s

\* String.prototype.trim
RECURSIVE TrimLeft(_)
TrimLeft(s) == IF s # <<>> /\ Head(s) = " " THEN TrimLeft(Tail(s)) ELSE s
RECURSIVE TrimRight(_)
TrimRight(s) ==
    IF s # <<>> /\ s[Len(s)] = " " THEN TrimRight(SubSeq(s, 1, Len(s) - 1)) ELSE s
Trim(s) == TrimRight(TrimLeft(s))

\* Number.prototype.toString on the quantities of the model
NumStr(n) ==
    IF n < 0 THEN <<"-">> \o <<<<"0", "1", "2", "3", "4", "5", "6", "7", "8", "9">>[1 - n]>>
    ELSE <<<<"0", "1", "2", "3", "4", "5", "6", "7", "8", "9">>[n + 1]>>

NoDate == 0                   \* null Date / absent date field
BadDate == -2                 \* text that new Date() cannot parse (Invalid Date)
NoNum == -1                   \* absent numeric field

(***************************************************************************)
(* Pure helpers of the controllers                                         *)
(***************************************************************************)
\* faulty variant: the ERP unit is preferred to the production unit
getOrderUOMErpFirst(o) ==
    IF o.erpUnitOfMeasure # EMPTY THEN o.erpUnitOfMeasure
    ELSE IF o.productionUom # EMPTY THEN o.productionUom
    ELSE IF o.baseUom # EMPTY THEN o.baseUom
    ELSE EMPTY

\* getOrderUOM: production UOM, then ERP UOM, then base UOM, then ""
getOrderUOM(o) ==
    IF o.productionUom # EMPTY THEN o.productionUom
    ELSE IF o.erpUnitOfMeasure # EMPTY THEN o.erpUnitOfMeasure
    ELSE IF o.baseUom # EMPTY THEN o.baseUom
    ELSE EMPTY

\* parseDatePickerValue: an empty or unparsable value is null
parseDatePickerValue(value) == IF value = NoDate \/ value = BadDate THEN NoDate ELSE value

\* formatDate: "-" for a missing or unparsable date, else the date as text
formatDate(dateStr) ==
    IF dateStr = NoDate \/ dateStr = BadDate THEN DASH ELSE <<"F">> \o NumStr(dateStr)

\* date.toISOString().substring(0, 10)
ISODate(d) == <<"D">> \o NumStr(d)

\* the status allow-list of the enrichment and of the enabled flag
Enrichable(status) == status = "ACTIVE" \/ status = "NOT_IN_EXECUTION"

\* faulty variant: the detail of every order is looked up
FetchesDetailAnyStatus(v, status) == TRUE

\* faulty variant: only ACTIVE orders are looked up
FetchesDetailActiveOnly(v, status) == status = "ACTIVE"

\* the statuses for which the controller v fetches the order detail
FetchesDetail(v, status) ==
    IF v = "basic" THEN status = "ACTIVE" ELSE Enrichable(status)

\* value + " " + uom, or "-" when the value is absent
\* faulty variant: the number is formatted whether the field is there or not
QtyTextNoPlaceholder(n, uom) == NumStr(n) \o <<" ">> \o uom

QtyText(n, uom) == IF n # NoNum THEN NumStr(n) \o <<" ">> \o uom ELSE DASH

\* mapOrderApiToUiRow, for the controller v (the row of the basic controller
\* has no enabled property: it is falsy there)
mapOrderApiToUiRow(v, o) ==
    [orderNo |-> IF o.order # EMPTY THEN o.order ELSE DASH,
     parentSFC |-> DASH,
     materialLine |-> IF o.material.present
                      THEN o.material.material \o <<" ", "/", " ">> \o o.material.version
                      ELSE DASH,
     materialDesc |-> IF o.material.present THEN o.material.description ELSE EMPTY,
     executionStatus |-> IF o.executionStatus # UNDEF THEN o.executionStatus ELSE "-",
     buildQty |-> QtyText(o.buildQuantity, getOrderUOM(o)),
     doneQty |-> QtyText(o.doneQuantity, getOrderUOM(o)),
     dmReleasedQty |-> IF v = "basic" THEN QtyText(o.dmReleasedQty, getOrderUOM(o)) ELSE DASH,
     availableQty |->
         IF v = "parent"
         THEN IF o.buildQuantity # NoNum /\ o.releasedQuantity # NoNum
              THEN NumStr(o.buildQuantity - o.releasedQuantity) \o <<" ">> \o getOrderUOM(o)
              ELSE DASH
         ELSE IF o.buildQuantity # NoNum /\ o.doneQuantity # NoNum
              THEN NumStr(o.buildQuantity - o.doneQuantity) \o <<" ">> \o getOrderUOM(o)
              ELSE DASH,
     scheduledStartEnd |-> formatDate(o.scheduledStartDate) \o <<"\n">>
                           \o formatDate(o.scheduledCompletionDate),
     scheduledStartDate |-> o.scheduledStartDate,
     scheduledCompletionDate |-> o.scheduledCompletionDate,
     priority |-> IF o.priority # NoNum /\ o.priority # 0 THEN NumStr(o.priority) ELSE DASH,
     enabled |-> v # "basic" /\ Enrichable(o.executionStatus)]

(***************************************************************************)
(* onFilterPress: validation and query                                     *)
(***************************************************************************)
\* exactly one of the two dates was entered (and parsed)
OneDateOnly(f) ==
    LET hasDateFrom == parseDatePickerValue(f.dateFrom) # NoDate
        hasDateTo == parseDatePickerValue(f.dateTo) # NoDate
    IN  (hasDateFrom /\ ~hasDateTo) \/ (~hasDateFrom /\ hasDateTo)

\* faulty variant: a search without any parameter is let through
NoParameterIgnored(f) == FALSE

\* no material, no status, no order number and no complete date range
NoParameter(f) ==
    LET hasMaterial == Trim(f.material) # EMPTY
        hasExecStatus == f.executionStatus # ""
        hasOrder == Trim(f.orderNumber) # EMPTY
        hasDateFrom == parseDatePickerValue(f.dateFrom) # NoDate
        hasDateTo == parseDatePickerValue(f.dateTo) # NoDate
    IN  ~hasMaterial /\ ~hasExecStatus /\ ~hasOrder /\ ~(hasDateFrom /\ hasDateTo)

\* faulty variant: the dates are compared the wrong way round
DateOrderViolatedReversed(f) ==
    /\ parseDatePickerValue(f.dateFrom) # NoDate
    /\ parseDatePickerValue(f.dateTo) # NoDate
    /\ parseDatePickerValue(f.dateFrom) < parseDatePickerValue(f.dateTo)

\* dateFromObj && dateToObj && dateFromObj > dateToObj
DateOrderViolated(f) ==
    /\ parseDatePickerValue(f.dateFrom) # NoDate
    /\ parseDatePickerValue(f.dateTo) # NoDate
    /\ parseDatePickerValue(f.dateFrom) > parseDatePickerValue(f.dateTo)

\* faulty variant: the material is tested as entered, blanks included
MaterialMissingUntrimmed(f) == f.material = EMPTY

\* !material, the material being the trimmed value of the input
MaterialMissing(f) == Trim(f.material) = EMPTY

\* the validation section: "ok" or the message shown
Validate(v, f) ==
    IF v = "basic"
    THEN IF MaterialMissing(f) THEN "material_mandatory"
         ELSE IF DateOrderViolated(f) THEN "date_order"
         ELSE "ok"
    ELSE IF OneDateOnly(f) THEN "both_dates"
    ELSE IF NoParameter(f) THEN "no_parameter"
    ELSE IF DateOrderViolated(f) THEN "date_order"
    ELSE "ok"

\* the values captured by the handler for the callbacks of one search
Criteria(f) ==
    [executionStatus |-> f.executionStatus,
     orderNumber |-> Trim(f.orderNumber),
     dateFrom |-> parseDatePickerValue(f.dateFrom),
     dateTo |-> parseDatePickerValue(f.dateTo)]

\* faulty variant: every parameter is sent, an empty criterion as an empty value
ParamsAllSent(v, f) ==
    LET c == Criteria(f)
    IN  [names |-> {"size", "page", "plant", "material", "executionStatus",
                    "orderNumber", "dateFrom", "dateTo"},
         material |-> Trim(f.material),
         executionStatus |-> c.executionStatus,
         orderNumber |-> c.orderNumber,
         dateFrom |-> IF c.dateFrom # NoDate THEN ISODate(c.dateFrom) ELSE EMPTY,
         dateTo |-> IF c.dateTo # NoDate THEN ISODate(c.dateTo) ELSE EMPTY]

\* the query parameters: the names sent and their values
Params(v, f) ==
    LET c == Criteria(f)
    IN  [names |-> (IF v = "basic" THEN {"plant", "material"} ELSE {"size", "page", "plant"})
                   \cup (IF Trim(f.material) # EMPTY THEN {"material"} ELSE {})
                   \cup (IF c.executionStatus # "" THEN {"executionStatus"} ELSE {})
                   \cup (IF c.orderNumber # EMPTY THEN {"orderNumber"} ELSE {})
                   \cup (IF c.dateFrom # NoDate THEN {"dateFrom"} ELSE {})
                   \cup (IF c.dateTo # NoDate THEN {"dateTo"} ELSE {}),
         material |-> Trim(f.material),
         executionStatus |-> c.executionStatus,
         orderNumber |-> c.orderNumber,
         dateFrom |-> IF c.dateFrom # NoDate THEN ISODate(c.dateFrom) ELSE EMPTY,
         dateTo |-> IF c.dateTo # NoDate THEN ISODate(c.dateTo) ELSE EMPTY]

\* a date of an order compared with a bound of the range: comparisons with an
\* Invalid Date are false
NotBefore(d, bound) == d # BadDate /\ d >= bound
NotAfter(d, bound) == d # BadDate /\ d <= bound

\* faulty variant: every controller keeps the orders fully inside the range
InDateRangeFullyInside(v, c, item) ==
    /\ item.scheduledStartDate # NoDate
    /\ item.scheduledCompletionDate # NoDate
    /\ NotBefore(item.scheduledStartDate, c.dateFrom)
    /\ NotAfter(item.scheduledCompletionDate, c.dateTo)

\* client-side date-range filter of the controller v
InDateRange(v, c, item) ==
    IF v = "parent"
    THEN /\ item.scheduledStartDate # NoDate
         /\ NotBefore(item.scheduledStartDate, c.dateFrom)
         /\ NotAfter(item.scheduledStartDate, c.dateTo)
    ELSE /\ item.scheduledStartDate # NoDate
         /\ item.scheduledCompletionDate # NoDate
         /\ NotBefore(item.scheduledStartDate, c.dateFrom)
         /\ NotAfter(item.scheduledCompletionDate, c.dateTo)

\* the date filter applies when both dates are given
KeepDate(v, c, item) ==
    ~(c.dateFrom # NoDate /\ c.dateTo # NoDate) \/ InDateRange(v, c, item)

\* faulty variant: the status of an order is not compared
KeepStatusAny(c, item) == TRUE

\* the status filter: exact match with the requested status, if one is given
KeepStatus(c, item) ==
    c.executionStatus = ""
    \/ (item.executionStatus # UNDEF /\ item.executionStatus = c.executionStatus)

\* the order-number filter: the order contains the requested text, if any
KeepOrder(c, item) ==
    c.orderNumber = EMPTY
    \/ (item.order # EMPTY /\ Includes(item.order, c.orderNumber))

\* the three client-side post-filters, in the order of the code
PostFilter(v, c, content) ==
    LET ByDate(item) == KeepDate(v, c, item)
        ByStatus(item) == KeepStatus(c, item)
        ByOrder(item) == KeepOrder(c, item)
    IN  SelectSeq(SelectSeq(SelectSeq(content, ByDate), ByStatus), ByOrder)

\* faulty variant: the last matching element is taken
FindParentSFCLast(order, sfcs) ==
    IF order # EMPTY /\ \E i \in 1..Len(sfcs) : Includes(sfcs[i], order)
    THEN sfcs[CHOOSE i \in 1..Len(sfcs) :
                  /\ Includes(sfcs[i], order)
                  /\ \A j \in (i + 1)..Len(sfcs) : ~Includes(sfcs[j], order)]
    ELSE EMPTY

\* sfcs.find(sfcName => sfcName.includes(orderObj.order)), guarded by a truthy
\* order: the first matching element, EMPTY (falsy, like undefined) if none
FindParentSFC(order, sfcs) ==
    IF order # EMPTY /\ \E i \in 1..Len(sfcs) : Includes(sfcs[i], order)
    THEN sfcs[CHOOSE i \in 1..Len(sfcs) :
                  /\ Includes(sfcs[i], order)
                  /\ \A j \in 1..(i - 1) : ~Includes(sfcs[j], order)]
    ELSE EMPTY

\* the row built at the end of one order's enrichment
EnrichedRow(v, o, e) ==
    [mapOrderApiToUiRow(v, o) EXCEPT
        !.parentSFC = e.parentSFC,
        !.dmReleasedQty =
            IF v = "parent"
            THEN IF e.qty # DASH THEN e.qty \o <<" ">> \o getOrderUOM(o) ELSE DASH
            ELSE IF v = "worklist" THEN e.qty
            ELSE @]

(***************************************************************************)
(* Data the environment supplies                                           *)
(***************************************************************************)
\* the material of an order: an object with a name, a version and a description
\* (EMPTY: the property is absent or empty), or absent altogether
Material(present, version, description) ==
    [present |-> present, material |-> IF present THEN <<"M">> ELSE EMPTY,
     version |-> version, description |-> description]

RawOrder(order, status) ==
    [order |-> order, executionStatus |-> status,
     material |-> Material(TRUE, <<"1">>, <<"d">>),
     scheduledStartDate |-> 1, scheduledCompletionDate |-> 2,
     productionUom |-> EMPTY, erpUnitOfMeasure |-> <<"P", "C">>, baseUom |-> EMPTY,
     buildQuantity |-> 5, doneQuantity |-> 2, releasedQuantity |-> 3,
     dmReleasedQty |-> NoNum, priority |-> NoNum]

\* upstream order lists: one order, in each status the workflows distinguish
Backends == {<<RawOrder(OA, st)>> : st \in {"ACTIVE", "NOT_IN_EXECUTION", "NEW", UNDEF}}

FilterInputs ==
    {[material |-> <<"M">>, executionStatus |-> "", orderNumber |-> EMPTY,
      dateFrom |-> NoDate, dateTo |-> NoDate],
     [material |-> <<" ">>, executionStatus |-> "", orderNumber |-> EMPTY,
      dateFrom |-> NoDate, dateTo |-> NoDate]}

\* outcomes of a remote call: the request failed at the network level, or a
\* response arrived with a success or a non-success status
Outcomes == {"throw", "notok", "ok"}

\* sfcs of an order-detail response (EMPTY list also stands for an absent field)
DetailSfcs == {<<>>, <<SX, SA1, SA2>>, <<SC1, SX>>}
\* quantity of an SFC-detail response
DetailQuantities == {NoNum, 4}
\* status.description of an SFC-detail response
DetailStatuses == {"NEW", "new", "ACTIVE", UNDEF}

\* entries of a worklist response
WorklistStatuses == {"NEW", "IN_QUEUE", "HOLD", "ACTIVE", UNDEF}
WorklistSfc(i) == <<"S">> \o NumStr(i)
\* worklists of n entries: the i-th entry is the SFC WorklistSfc(i), of either
\* order and in any status
Worklists(n) ==
    {[i \in 1..n |-> [sfc |-> WorklistSfc(i), order |-> e[i][1], status |-> e[i][2]]] :
        e \in [1..n -> {OA, OB} \X WorklistStatuses]}
\* a worklist body: blank text, text that is not JSON, JSON that is no array,
\* or a JSON array of entries
WorklistBodies ==
    {[text |-> t, sfcs |-> <<>>] : t \in {"blank", "invalid", "object"}}
    \cup {[text |-> "array", sfcs |-> l] : l \in UNION {Worklists(n) : n \in 0..MaxWorklist}}

(***************************************************************************)
(* State after construction (onInit)                                       *)
(***************************************************************************)
\* a request issued by a search, for the order at position row of the filtered
\* list (0: the list request); content, sfcs and quantity are what its
\* response carried
SearchCall(kind, row, target) ==
    [kind |-> kind, row |-> row, target |-> target, st |-> "inflight",
     content |-> <<>>, sfcs |-> <<>>, quantity |-> NoNum]

\* a search slot: idle, it keeps the requests and results of its last search
IdleSearch == [pc |-> "idle", crit |-> Criteria(CHOOSE f \in FilterInputs : TRUE),
               query |-> Params("parent", CHOOSE f \in FilterInputs : TRUE),
               list |-> <<>>, enr |-> <<>>, calls |-> <<>>]

IdleAttempt ==
    [pc |-> "idle", orderNo |-> EMPTY, status |-> "", parentSFC |-> EMPTY,
     detail |-> "", text |-> "", sfcs |-> <<>>, todo |-> <<>>, idx |-> 0, calls |-> <<>>,
     msgs |-> <<>>, refreshes |-> 0]

Variants == {"basic", "worklist", "parent"}

Init ==
    /\ variant \in Variants
    /\ backend \in Backends
    /\ filter \in FilterInputs
    /\ validation = ""
    /\ orders = <<>>
    /\ selectedOrderNo = EMPTY
    /\ selectedExecutionStatus = IF variant = "parent" THEN "" ELSE UNDEF
    /\ oOrderNumber = EMPTY
    /\ oParentSFCNumber = EMPTY
    /\ search = [s \in SearchIds |-> IdleSearch]
    /\ attempt = [a \in AttemptIds |-> IdleAttempt]

(***************************************************************************)
(* onFilterPress                                                           *)
(***************************************************************************)
FreeSearches(srch) == {s \in SearchIds : srch[s].pc = "idle"}
ActiveAttempts(att) == {a \in AttemptIds : att[a].pc \notin {"idle", "done"}}

\* the synchronous part of onFilterPress: validate, then issue the list request
FilterPressed(srch, f) ==
    IF Validate(variant, f) = "ok" /\ FreeSearches(srch) # {}
    THEN LET s == CHOOSE x \in FreeSearches(srch) : \A y \in FreeSearches(srch) : x <= y
         IN  [srch EXCEPT ![s] = [pc |-> "list", crit |-> Criteria(f),
                                  query |-> Params(variant, f), list |-> <<>>,
                                  enr |-> <<>>, calls |-> <<SearchCall("list", 0, EMPTY)>>]]
    ELSE srch

\* the user presses Filter
OnFilterPress ==
    /\ Cardinality(FreeSearches(search)) > Cardinality(ActiveAttempts(attempt))
    /\ validation' = Validate(variant, filter)
    /\ search' = FilterPressed(search, filter)
    /\ UNCHANGED <<variant, backend, filter, orders, selectedOrderNo,
                   selectedExecutionStatus, oOrderNumber, oParentSFCNumber, attempt>>

\* the request of the given kind and row settles with a status and a payload
SettleSearchCall(calls, kind, row, st, sfcs, quantity) ==
    [i \in 1..Len(calls) |->
        IF calls[i].kind = kind /\ calls[i].row = row /\ calls[i].st = "inflight"
        THEN [calls[i] EXCEPT !.st = st, !.sfcs = sfcs, !.quantity = quantity]
        ELSE calls[i]]

\* one order's enrichment when the map callback starts: the order-detail
\* request is issued for an enrichable order, nothing for any other
StartEnrichment(v, o) ==
    [pc |-> IF FetchesDetail(v, o.executionStatus) THEN "detail" ELSE "done",
     parentSFC |-> DASH, qty |-> DASH]

\* the order-detail requests issued by the map callbacks, in list order
DetailCalls(v, list) ==
    LET Issued(c) == FetchesDetail(v, list[c.row].executionStatus)
    IN  SelectSeq([i \in 1..Len(list) |-> SearchCall("orderdetail", i, list[i].order)],
                  Issued)

EnrichmentDone(enr) == \A i \in 1..Len(enr) : enr[i].pc = "done"

\* faulty variant: the rows are put together last order first
CombineRowsReversed(v, list, enr) ==
    [i \in 1..Len(list) |->
        EnrichedRow(v, list[Len(list) + 1 - i], enr[Len(list) + 1 - i])]

\* the array Promise.all resolves to: one row per order, in the order of the list
CombineRows(v, list, enr) ==
    [i \in 1..Len(list) |-> EnrichedRow(v, list[i], enr[i])]

\* Promise.all has resolved: bind the rows and reset the selection (the basic
\* controller has no selection to reset)
BindRows(s, list, enr, calls) ==
    /\ orders' = CombineRows(variant, list, enr)
    /\ selectedOrderNo' = IF variant = "basic" THEN selectedOrderNo ELSE EMPTY
    /\ search' = [search EXCEPT ![s] = [@ EXCEPT !.pc = "idle", !.list = list,
                                                 !.enr = enr, !.calls = calls]]

\* faulty variant: the rows displayed before stay on display
OrdersOnFailureKept(shown) == shown

\* the table content set by the .catch of the search
OrdersOnFailure(shown) == <<>>

\* .catch of the search: clear the table
SearchFailed(s, calls) ==
    /\ orders' = OrdersOnFailure(orders)
    /\ search' = [search EXCEPT ![s] = [@ EXCEPT !.pc = "idle", !.calls = calls]]
    /\ UNCHANGED selectedOrderNo

\* the order-list request settles
ListSettles(s) ==
    /\ search[s].pc = "list"
    /\ \E outcome \in Outcomes \cup {"badjson"} :
         LET calls == SettleSearchCall(search[s].calls, "list", 0, outcome, <<>>, NoNum)
         IN  IF outcome # "ok"
             THEN SearchFailed(s, calls)
             ELSE \E content \in {backend, <<>>} :
                    LET list == PostFilter(variant, search[s].crit, content)
                        enr == [i \in 1..Len(list) |-> StartEnrichment(variant, list[i])]
                        issued == [calls EXCEPT ![1].content = content]
                                  \o DetailCalls(variant, list)
                    IN  IF EnrichmentDone(enr)
                        THEN BindRows(s, list, enr, issued)
                        ELSE /\ search' = [search EXCEPT ![s] =
                                    [@ EXCEPT !.pc = "enrich", !.list = list,
                                              !.enr = enr, !.calls = issued]]
                             /\ UNCHANGED <<orders, selectedOrderNo>>
    /\ UNCHANGED <<variant, backend, filter, validation, selectedExecutionStatus,
                   oOrderNumber, oParentSFCNumber, attempt>>

\* one step of one order's enrichment has finished with the values e, the
\* requests of the search being calls
EnrichmentStep(s, i, e, calls) ==
    LET enr == [search[s].enr EXCEPT ![i] = e]
    IN  IF EnrichmentDone(enr)
        THEN BindRows(s, search[s].list, enr, calls)
        ELSE /\ search' = [search EXCEPT ![s].enr = enr, ![s].calls = calls]
             /\ UNCHANGED <<orders, selectedOrderNo>>

\* faulty variant: the SFC detail is fetched whether or not a parent SFC was found
FetchesSfcAlways(v, foundSFC) == v # "basic"

\* the SFC detail is fetched for the parent SFC found (never by the basic
\* controller, which shows no released quantity)
FetchesSfc(v, foundSFC) == v # "basic" /\ foundSFC # EMPTY

\* the order-detail request of order i settles; a success response may carry a
\* body that is not JSON
OrderDetailSettles(s, i) ==
    /\ search[s].pc = "enrich"
    /\ i \in 1..Len(search[s].enr)
    /\ search[s].enr[i].pc = "detail"
    /\ \E outcome \in Outcomes \cup {"badjson"} :
         IF outcome # "ok"
         THEN EnrichmentStep(s, i, [pc |-> "done", parentSFC |-> DASH, qty |-> DASH],
                  SettleSearchCall(search[s].calls, "orderdetail", i, outcome, <<>>, NoNum))
         ELSE \E sfcs \in DetailSfcs :
                LET foundSFC == FindParentSFC(search[s].list[i].order, sfcs)
                    calls == SettleSearchCall(search[s].calls, "orderdetail", i, "ok",
                                              sfcs, NoNum)
                IN  IF FetchesSfc(variant, foundSFC)
                    THEN EnrichmentStep(s, i,
                            [pc |-> "sfc", parentSFC |-> foundSFC, qty |-> DASH],
                            calls \o <<SearchCall("sfcdetail", i, foundSFC)>>)
                    ELSE EnrichmentStep(s, i,
                            [pc |-> "done",
                             parentSFC |-> IF foundSFC # EMPTY THEN foundSFC ELSE DASH,
                             qty |-> DASH],
                            calls)
    /\ UNCHANGED <<variant, backend, filter, validation, selectedExecutionStatus,
                   oOrderNumber, oParentSFCNumber, attempt>>

\* faulty variant: a failed SFC-detail request also drops the parent SFC
SfcDetailFailedDropsParent(e) == [pc |-> "done", parentSFC |-> DASH, qty |-> DASH]

\* the SFC-detail request failed: the quantity is "-", the parent SFC stays
SfcDetailFailed(e) == [e EXCEPT !.pc = "done", !.qty = DASH]

\* the SFC-detail request of order i settles
SfcDetailSettles(s, i) ==
    /\ search[s].pc = "enrich"
    /\ i \in 1..Len(search[s].enr)
    /\ search[s].enr[i].pc = "sfc"
    /\ \E outcome \in Outcomes \cup {"badjson"} :
         IF outcome # "ok"
         THEN EnrichmentStep(s, i, SfcDetailFailed(search[s].enr[i]),
                  SettleSearchCall(search[s].calls, "sfcdetail", i, outcome, <<>>, NoNum))
         ELSE \E quantity \in DetailQuantities :
                EnrichmentStep(s, i,
                    [search[s].enr[i] EXCEPT
                        !.pc = "done",
                        !.qty = IF quantity # NoNum THEN NumStr(quantity) ELSE DASH],
                    SettleSearchCall(search[s].calls, "sfcdetail", i, "ok", <<>>, quantity))
    /\ UNCHANGED <<variant, backend, filter, validation, selectedExecutionStatus,
                   oOrderNumber, oParentSFCNumber, attempt>>

(***************************************************************************)
(* Selection                                                               *)
(***************************************************************************)
\* onRadioSelect on row i
OnRadioSelect(i) ==
    /\ variant # "basic"
    /\ i \in 1..Len(orders)
    /\ IF variant = "parent"
       THEN /\ selectedOrderNo' = orders[i].orderNo
            /\ selectedExecutionStatus' = orders[i].executionStatus
            /\ UNCHANGED <<oOrderNumber, oParentSFCNumber>>
       ELSE /\ oOrderNumber' = orders[i].orderNo
            /\ oParentSFCNumber' = orders[i].parentSFC
            /\ UNCHANGED <<selectedOrderNo, selectedExecutionStatus>>
    /\ UNCHANGED <<variant, backend, filter, validation, orders, search, attempt>>

\* the view records the picked row and its status in the order model
\* (worklist controller: the properties its onCompleteOrder reads)
SelectionBinding(i) ==
    /\ variant = "worklist"
    /\ i \in 1..Len(orders)
    /\ selectedOrderNo' = orders[i].orderNo
    /\ selectedExecutionStatus' = orders[i].executionStatus
    /\ UNCHANGED <<variant, backend, filter, validation, orders, oOrderNumber,
                   oParentSFCNumber, search, attempt>>

(***************************************************************************)
(* onCompleteOrder: helpers                                                *)
(***************************************************************************)
\* something an attempt awaits: a remote request, or the timer ("delay")
Call(kind, target) == [kind |-> kind, target |-> target, st |-> "inflight"]
Msg(kind, arg) == [kind |-> kind, arg |-> arg]

\* faulty variant: the selection check is missing
NoSelectionIgnored(sel) == FALSE

\* !selectedOrderNo
NoSelection(sel) == sel = EMPTY

\* faulty variant: every status but ACTIVE goes on to the worklist
StatusBranchNoReject(status) == IF status = "ACTIVE" THEN "active" ELSE "worklist"

\* the status dispatch of the worklist controller
StatusBranch(status) ==
    IF status = "ACTIVE" THEN "active"
    ELSE IF status = "NOT_IN_EXECUTION" THEN "worklist"
    ELSE "other"

\* faulty variant: text that is not JSON is taken as an empty list
ParseWorklistLenient(body) ==
    IF body.text \in {"blank", "invalid"} THEN [error |-> FALSE, isArray |-> TRUE, sfcs |-> <<>>]
    ELSE IF body.text = "object" THEN [error |-> FALSE, isArray |-> FALSE, sfcs |-> <<>>]
    ELSE [error |-> FALSE, isArray |-> TRUE, sfcs |-> body.sfcs]

\* the defensive parse of the worklist response text
ParseWorklist(body) ==
    IF body.text = "blank" THEN [error |-> FALSE, isArray |-> TRUE, sfcs |-> <<>>]
    ELSE IF body.text = "invalid" THEN [error |-> TRUE, isArray |-> FALSE, sfcs |-> <<>>]
    ELSE IF body.text = "object" THEN [error |-> FALSE, isArray |-> FALSE, sfcs |-> <<>>]
    ELSE [error |-> FALSE, isArray |-> TRUE, sfcs |-> body.sfcs]

\* faulty variant: an empty array goes on to the loop
NoSfcsFoundNonArrayOnly(parsed) == ~parsed.isArray

\* !Array.isArray(sfcs) || sfcs.length === 0
NoSfcsFound(parsed) == ~parsed.isArray \/ Len(parsed.sfcs) = 0

validStatusesForInvalidation == {"IN_QUEUE", "HOLD", "NEW"}

\* faulty variant: the order of the entry is not compared
ToBeInvalidatedAnyOrder(sfc, selOrderNo) ==
    /\ sfc.status # UNDEF
    /\ sfc.status \in validStatusesForInvalidation

\* the filter of sfcsToInvalidate
ToBeInvalidated(sfc, selOrderNo) ==
    /\ sfc.order = selOrderNo
    /\ sfc.status # UNDEF
    /\ sfc.status \in validStatusesForInvalidation

\* sfcs.filter(...).map(sfc => sfc.sfc)
SfcsToInvalidate(sfcs, selOrderNo) ==
    LET Keep(sfc) == ToBeInvalidated(sfc, selOrderNo)
        kept == SelectSeq(sfcs, Keep)
    IN  [i \in 1..Len(kept) |-> kept[i].sfc]

\* faulty variant: the requests of all remaining SFCs are issued without awaiting
InvalidateIssuedAllAtOnce(todo, idx) ==
    [i \in 1..(Len(todo) - idx + 1) |-> Call("invalidate", todo[idx + i - 1])]

\* the invalidate requests issued when the for-of loop reaches position idx:
\* one, for the SFC at that position, awaited before the loop moves on
InvalidateIssued(todo, idx) == <<Call("invalidate", todo[idx])>>

\* faulty variant: a failed request ends the loop
LoopNextAbortOnFailure(idx, outcome, n) == IF outcome = "ok" THEN idx + 1 ELSE n + 1

\* the position the loop moves to once the request at idx has settled
LoopNext(idx, outcome, n) == idx + 1

\* what is shown when an invalidate request settles (outcome "nobody": a
\* non-success response whose text cannot be read)
InvalidateMsgs(sfcNumber, outcome) ==
    IF outcome = "ok" THEN <<>>
    ELSE IF outcome = "notok" THEN <<Msg("failed_invalidate", sfcNumber)>>
    ELSE <<Msg("error_invalidating", sfcNumber)>>

\* the response status logged for an outcome
StatusOf(outcome) == IF outcome = "nobody" THEN "notok" ELSE outcome

\* orders.find(o => o.orderNo === selectedOrderNo) and its parentSFC, null (EMPTY)
\* when the row or a parent SFC is missing
ParentSfcOf(rows, selOrderNo) ==
    IF \E i \in 1..Len(rows) : rows[i].orderNo = selOrderNo
    THEN LET obj == rows[CHOOSE i \in 1..Len(rows) :
                             /\ rows[i].orderNo = selOrderNo
                             /\ \A j \in 1..(i - 1) : rows[j].orderNo # selOrderNo]
         IN  IF obj.parentSFC # EMPTY /\ obj.parentSFC # DASH THEN obj.parentSFC ELSE EMPTY
    ELSE EMPTY

\* faulty variant: the parent SFC is invalidated whatever its status is
ParentIsNewAnyStatus(sfcStatusDesc) == TRUE

\* String(sfcStatusDesc).toUpperCase() === "NEW"
ParentIsNew(sfcStatusDesc) == ToUpperCase(sfcStatusDesc) = "NEW"

\* faulty variant: the delay is taken only after a successful invalidation
WaitsAfterInvalidateOnSuccessOnly(outcome) == outcome = "ok"

\* the 2-second wait follows the invalidate request whichever callback resolved
WaitsAfterInvalidate(outcome) == TRUE

\* faulty variant: only the success callback refreshes
RefreshOnSuccessOnly(outcome) == outcome = "ok"

\* both callbacks of the order-completion request call onFilterPress
RefreshOnCompleteSettled(outcome) == TRUE

\* faulty variant: the catch block swallows the error
CaughtErrorSilent(kind) == <<>>

\* the message of the catch block around the awaited requests
CaughtError(kind) == <<Msg(kind, EMPTY)>>

\* faulty variant: the completed order is taken off the table by the callback
RowsOnCompleteSettledRemoved(rows, orderNo) ==
    LET Other(row) == row.orderNo # orderNo IN SelectSeq(rows, Other)

\* the rows on display when a callback of the order-completion request has
\* run: the callbacks show a message and call onFilterPress, nothing else
RowsOnCompleteSettled(rows, orderNo) == rows

\* the attempt's last in-flight call settles with a status
SettleLast(calls, st) == [calls EXCEPT ![Len(calls)].st = st]

(***************************************************************************)
(* onCompleteOrder: worklist controller                                    *)
(***************************************************************************)
FreeAttempt(a) ==
    /\ attempt[a].pc \in {"idle", "done"}
    /\ \A b \in AttemptIds : attempt[b].pc \in {"idle", "done"} => a <= b
    /\ Cardinality(FreeSearches(search)) > Cardinality(ActiveAttempts(attempt))

\* the attempt a returns, with the messages shown on the way
Returned(a, rec, msgs) ==
    attempt' = [attempt EXCEPT ![a] = [rec EXCEPT !.pc = "done", !.msgs = rec.msgs \o msgs]]

\* the attempt a returns after calling this.onFilterPress()
ReturnedWithRefresh(a, rec, msgs) ==
    /\ attempt' = [attempt EXCEPT ![a] = [rec EXCEPT !.pc = "done",
                                                     !.msgs = rec.msgs \o msgs,
                                                     !.refreshes = rec.refreshes + 1]]
    /\ validation' = Validate(variant, filter)
    /\ search' = FilterPressed(search, filter)

\* the for-of loop of the worklist controller is at position idx
WorklistLoop(a, rec, idx) ==
    IF idx <= Len(rec.todo)
    THEN /\ attempt' = [attempt EXCEPT ![a] =
                [rec EXCEPT !.pc = "w_inval", !.idx = idx,
                            !.calls = rec.calls \o InvalidateIssued(rec.todo, idx)]]
         /\ UNCHANGED <<validation, search>>
    ELSE ReturnedWithRefresh(a, [rec EXCEPT !.idx = idx], <<Msg("success", rec.orderNo)>>)

CompleteOrderWorklist(a) ==
    /\ variant = "worklist"
    /\ FreeAttempt(a)
    /\ LET rec == [IdleAttempt EXCEPT !.orderNo = selectedOrderNo,
                                      !.status = selectedExecutionStatus]
       IN  IF NoSelection(selectedOrderNo)
           THEN Returned(a, rec, <<Msg("select_order", EMPTY)>>)
           ELSE IF StatusBranch(selectedExecutionStatus) = "active"
           THEN Returned(a, rec, <<Msg("active_sfcs", EMPTY)>>)
           ELSE IF StatusBranch(selectedExecutionStatus) = "worklist"
           THEN attempt' = [attempt EXCEPT ![a] =
                    [rec EXCEPT !.pc = "w_list",
                                !.calls = <<Call("worklist", selectedOrderNo)>>]]
           ELSE Returned(a, rec, <<Msg("only_active_or_nie", EMPTY)>>)
    /\ UNCHANGED <<variant, backend, filter, validation, orders, selectedOrderNo,
                   selectedExecutionStatus, oOrderNumber, oParentSFCNumber, search>>

\* the worklist request settles: a network error, or a response (whose status
\* the code does not look at) with a body that may be unreadable
WorklistSettlesFrom(a, bodies) ==
    /\ attempt[a].pc = "w_list"
    /\ \E outcome \in Outcomes \cup {"nobody"} :
         LET rec == [attempt[a] EXCEPT !.calls = SettleLast(@, StatusOf(outcome))]
         IN  IF outcome \in {"throw", "nobody"}
             THEN /\ Returned(a, rec, CaughtError("error"))
                  /\ UNCHANGED <<validation, search>>
             ELSE \E body \in bodies :
                    LET parsed == ParseWorklist(body)
                        got == [rec EXCEPT !.text = body.text, !.sfcs = body.sfcs]
                    IN  IF parsed.error
                        THEN /\ Returned(a, got, <<Msg("invalid_json", EMPTY)>>)
                             /\ UNCHANGED <<validation, search>>
                        ELSE IF NoSfcsFound(parsed)
                        THEN /\ Returned(a, got, <<Msg("no_sfcs", rec.orderNo)>>)
                             /\ UNCHANGED <<validation, search>>
                        ELSE WorklistLoop(a,
                                [got EXCEPT !.todo = SfcsToInvalidate(parsed.sfcs, rec.orderNo)],
                                1)
    /\ UNCHANGED <<variant, backend, filter, orders, selectedOrderNo,
                   selectedExecutionStatus, oOrderNumber, oParentSFCNumber>>

WorklistSettles(a) == WorklistSettlesFrom(a, WorklistBodies)

\* the awaited invalidate request of the worklist loop settles
InvalidateSettles(a) ==
    /\ attempt[a].pc = "w_inval"
    /\ \E outcome \in Outcomes \cup {"nobody"} :
         LET rec == [attempt[a] EXCEPT
                        !.calls = SettleLast(@, StatusOf(outcome)),
                        !.msgs = @ \o InvalidateMsgs(attempt[a].todo[attempt[a].idx], outcome)]
         IN  WorklistLoop(a, rec, LoopNext(rec.idx, outcome, Len(rec.todo)))
    /\ UNCHANGED <<variant, backend, filter, orders, selectedOrderNo,
                   selectedExecutionStatus, oOrderNumber, oParentSFCNumber>>

(***************************************************************************)
(* onCompleteOrder: parent-SFC controller                                  *)
(***************************************************************************)
\* step 2 of the handler: issue the order-completion request
IssueComplete(a, rec) ==
    attempt' = [attempt EXCEPT ![a] =
        [rec EXCEPT !.pc = "p_complete",
                    !.calls = rec.calls \o <<Call("complete", rec.orderNo)>>]]

CompleteOrderParent(a) ==
    /\ variant = "parent"
    /\ FreeAttempt(a)
    /\ LET parentSFC == ParentSfcOf(orders, selectedOrderNo)
           rec == [IdleAttempt EXCEPT !.orderNo = selectedOrderNo,
                                      !.status = selectedExecutionStatus,
                                      !.parentSFC = parentSFC]
       IN  IF NoSelection(selectedOrderNo)
           THEN Returned(a, [rec EXCEPT !.parentSFC = EMPTY], <<Msg("select_order", EMPTY)>>)
           ELSE IF parentSFC # EMPTY
           THEN attempt' = [attempt EXCEPT ![a] =
                    [rec EXCEPT !.pc = "p_detail",
                                !.calls = <<Call("sfcdetail", parentSFC)>>]]
           ELSE IssueComplete(a, rec)
    /\ UNCHANGED <<variant, backend, filter, validation, orders, selectedOrderNo,
                   selectedExecutionStatus, oOrderNumber, oParentSFCNumber, search>>

\* the SFC-detail request of the parent SFC settles; a success response carries
\* unparsable JSON, JSON null, or an object with a status description
ParentDetailSettles(a) ==
    /\ attempt[a].pc = "p_detail"
    /\ \E outcome \in Outcomes :
         LET rec == [attempt[a] EXCEPT !.calls = SettleLast(@, outcome)]
         IN  IF outcome = "throw"
             THEN Returned(a, rec, CaughtError("unexpected_error"))
             ELSE IF outcome = "notok"
             THEN IssueComplete(a, rec)
             ELSE \E json \in {"invalid", "null"} \cup DetailStatuses :
                    LET got == [rec EXCEPT !.detail = json]
                    IN  IF json \in {"invalid", "null"}
                        THEN Returned(a, got, CaughtError("unexpected_error"))
                        ELSE IF ParentIsNew(json)
                        THEN attempt' = [attempt EXCEPT ![a] =
                                [got EXCEPT !.pc = "p_inval",
                                            !.calls = got.calls
                                                      \o <<Call("invalidate", got.parentSFC)>>]]
                        ELSE IssueComplete(a, got)
    /\ UNCHANGED <<variant, backend, filter, validation, orders, selectedOrderNo,
                   selectedExecutionStatus, oOrderNumber, oParentSFCNumber, search>>

\* ajaxPatchRequest calls back: the success or the error callback resolves,
\* and the handler starts the timer it awaits next
ParentInvalidateSettles(a) ==
    /\ attempt[a].pc = "p_inval"
    /\ \E outcome \in Outcomes :
         LET rec == [attempt[a] EXCEPT
                        !.calls = SettleLast(@, outcome),
                        !.msgs = @ \o (IF outcome = "ok"
                                       THEN <<Msg("parent_deleted", EMPTY)>>
                                       ELSE <<Msg("failed_invalidate",
                                                  attempt[a].parentSFC)>>)]
         IN  IF WaitsAfterInvalidate(outcome)
             THEN attempt' = [attempt EXCEPT ![a] =
                     [rec EXCEPT !.pc = "p_delay",
                                 !.calls = rec.calls \o <<Call("delay", EMPTY)>>]]
             ELSE IssueComplete(a, rec)
    /\ UNCHANGED <<variant, backend, filter, validation, orders, selectedOrderNo,
                   selectedExecutionStatus, oOrderNumber, oParentSFCNumber, search>>

\* the setTimeout of 2000 ms fires
DelayElapses(a) ==
    /\ attempt[a].pc = "p_delay"
    /\ IssueComplete(a, [attempt[a] EXCEPT !.calls = SettleLast(@, "ok")])
    /\ UNCHANGED <<variant, backend, filter, validation, orders, selectedOrderNo,
                   selectedExecutionStatus, oOrderNumber, oParentSFCNumber, search>>

\* ajaxPostRequest calls back: message, onFilterPress, resolve
CompleteSettles(a) ==
    /\ attempt[a].pc = "p_complete"
    /\ \E outcome \in Outcomes :
         LET rec == [attempt[a] EXCEPT !.calls = SettleLast(@, outcome)]
             msgs == IF outcome = "ok" THEN <<Msg("completion_message", EMPTY)>>
                     ELSE <<Msg("completion_error", EMPTY)>>
         IN  /\ orders' = RowsOnCompleteSettled(orders, rec.orderNo)
             /\ IF RefreshOnCompleteSettled(outcome)
                THEN ReturnedWithRefresh(a, rec, msgs)
                ELSE /\ Returned(a, rec, msgs)
                     /\ UNCHANGED <<validation, search>>
    /\ UNCHANGED <<variant, backend, filter, selectedOrderNo,
                   selectedExecutionStatus, oOrderNumber, oParentSFCNumber>>

(***************************************************************************)
(* Specification                                                           *)
(***************************************************************************)
\* no handler invocation is in flight
Quiet ==
    /\ \A s \in SearchIds : search[s].pc = "idle"
    /\ ActiveAttempts(attempt) = {}

\* the operator uses the view one action at a time: a search or a completion
\* is started when the previous one has run to its end
Next ==
    \/ Quiet /\ OnFilterPress
    \/ \E s \in SearchIds : ListSettles(s)
    \/ \E s \in SearchIds : \E i \in 1..Len(search[s].enr) : OrderDetailSettles(s, i)
    \/ \E s \in SearchIds : \E i \in 1..Len(search[s].enr) : SfcDetailSettles(s, i)
    \/ \E i \in 1..Len(orders) : Quiet /\ OnRadioSelect(i)
    \/ \E i \in 1..Len(orders) : Quiet /\ SelectionBinding(i)
    \/ \E a \in AttemptIds : Quiet /\ CompleteOrderWorklist(a)
    \/ \E a \in AttemptIds : WorklistSettles(a)
    \/ \E a \in AttemptIds : InvalidateSettles(a)
    \/ \E a \in AttemptIds : Quiet /\ CompleteOrderParent(a)
    \/ \E a \in AttemptIds : ParentDetailSettles(a)
    \/ \E a \in AttemptIds : ParentInvalidateSettles(a)
    \/ \E a \in AttemptIds : DelayElapses(a)
    \/ \E a \in AttemptIds : CompleteSettles(a)

Spec == Init /\ [][Next]_vars

\* a request, or the timer, that a completion attempt awaits settles
AttemptSettles ==
    \E a \in AttemptIds :
        \/ WorklistSettles(a)
        \/ InvalidateSettles(a)
        \/ ParentDetailSettles(a)
        \/ ParentInvalidateSettles(a)
        \/ DelayElapses(a)
        \/ CompleteSettles(a)

\* a request of a search settles
SearchRequestSettles ==
    \E s \in SearchIds :
        \/ ListSettles(s)
        \/ \E i \in 1..Len(search[s].enr) : OrderDetailSettles(s, i)
        \/ \E i \in 1..Len(search[s].enr) : SfcDetailSettles(s, i)

\* every request issued settles in the end, and the timer fires
SpecLive == Init /\ [][Next]_vars /\ WF_vars(AttemptSettles) /\ WF_vars(SearchRequestSettles)

(***************************************************************************)
(* Filter pressed again while a search is in flight                        *)
(***************************************************************************)
\* no search has come to its end yet: none was made, or those made are in flight
NoSearchEnded == \A s \in SearchIds : search[s].calls = <<>> \/ search[s].pc # "idle"

\* the operator presses Filter, and presses it again before the answer is
\* there; the requests of the searches settle in any order
NextRace ==
    \/ NoSearchEnded /\ OnFilterPress
    \/ \E s \in SearchIds : ListSettles(s)
    \/ \E s \in SearchIds : \E i \in 1..Len(search[s].enr) : OrderDetailSettles(s, i)
    \/ \E s \in SearchIds : \E i \in 1..Len(search[s].enr) : SfcDetailSettles(s, i)

SpecRace == Init /\ [][NextRace]_vars

(***************************************************************************)
(* Complete Order pressed again while an attempt is in flight              *)
(***************************************************************************)
\* no attempt was made yet
NoAttemptMade == \A a \in AttemptIds : attempt[a].pc = "idle"
\* no attempt has come to its end yet
NoAttemptEnded == \A a \in AttemptIds : attempt[a].pc # "done"

\* worklist bodies of the selected order: text that is not JSON, or one or two
\* SFCs, each to be invalidated (NEW) or to be skipped (ACTIVE)
ReentryBodies ==
    {[text |-> "invalid", sfcs |-> <<>>]}
    \cup {[text |-> "array", sfcs |-> l] :
             l \in {w \in UNION {Worklists(n) : n \in 1..MaxWorklist} :
                       \A i \in 1..Len(w) : w[i].order = OA /\ w[i].status \in {"NEW", "ACTIVE"}}}

\* the rows a search left on display: its detail lookups, made for the orders
\* whose status calls for them, found the parent SFC p, or none (DASH)
ReentryRows(v, list, p) ==
    CombineRows(v, list, [i \in 1..Len(list) |->
                              [pc |-> "done", parentSFC |-> p, qty |-> DASH]])

\* one of the two controllers that have a Complete Order button shows the rows
\* of a search; no row is selected yet
InitReentry ==
    /\ variant \in {"worklist", "parent"}
    /\ backend \in Backends
    /\ filter \in FilterInputs
    /\ validation = ""
    /\ orders \in {ReentryRows(variant, backend, p) :
                      p \in IF FetchesDetail(variant, backend[1].executionStatus)
                            THEN {DASH, SA1} ELSE {DASH}}
    /\ selectedOrderNo = EMPTY
    /\ selectedExecutionStatus = IF variant = "parent" THEN "" ELSE UNDEF
    /\ oOrderNumber = EMPTY
    /\ oParentSFCNumber = EMPTY
    /\ search = [s \in SearchIds |-> IdleSearch]
    /\ attempt = [a \in AttemptIds |-> IdleAttempt]

\* the operator selects a row, presses Complete Order, and presses it again
\* before the first attempt has ended; the answers to the re-queries the
\* attempts start are not waited for
NextReentry ==
    \/ \E i \in 1..Len(orders) : NoAttemptMade /\ OnRadioSelect(i)
    \/ \E i \in 1..Len(orders) : NoAttemptMade /\ SelectionBinding(i)
    \/ \E a \in AttemptIds : NoAttemptEnded /\ CompleteOrderWorklist(a)
    \/ \E a \in AttemptIds : WorklistSettlesFrom(a, ReentryBodies)
    \/ \E a \in AttemptIds : InvalidateSettles(a)
    \/ \E a \in AttemptIds : NoAttemptEnded /\ CompleteOrderParent(a)
    \/ \E a \in AttemptIds : ParentDetailSettles(a)
    \/ \E a \in AttemptIds : ParentInvalidateSettles(a)
    \/ \E a \in AttemptIds : DelayElapses(a)
    \/ \E a \in AttemptIds : CompleteSettles(a)

SpecReentry == InitReentry /\ [][NextReentry]_vars

(***************************************************************************)
(* Searches over a list of several orders                                  *)
(***************************************************************************)
\* an upstream list of three orders, one of them in no enrichable status
SearchBackends ==
    {<<RawOrder(OA, "ACTIVE"), RawOrder(OB, "NEW"), RawOrder(OC, "NOT_IN_EXECUTION")>>}

\* filter inputs of these searches: also one that keeps order A alone
SearchFilters ==
    FilterInputs
    \cup {[material |-> <<"M">>, executionStatus |-> "", orderNumber |-> OA,
           dateFrom |-> NoDate, dateTo |-> NoDate]}

InitSearch ==
    /\ variant \in Variants
    /\ backend \in SearchBackends
    /\ filter \in SearchFilters
    /\ validation = ""
    /\ orders = <<>>
    /\ selectedOrderNo = EMPTY
    /\ selectedExecutionStatus = IF variant = "parent" THEN "" ELSE UNDEF
    /\ oOrderNumber = EMPTY
    /\ oParentSFCNumber = EMPTY
    /\ search = [s \in SearchIds |-> IdleSearch]
    /\ attempt = [a \in AttemptIds |-> IdleAttempt]

\* the operator searches again and again; the detail responses of one search
\* arrive in any order
NextSearch ==
    \/ Quiet /\ OnFilterPress
    \/ \E s \in SearchIds : ListSettles(s)
    \/ \E s \in SearchIds : \E i \in 1..Len(search[s].enr) : OrderDetailSettles(s, i)
    \/ \E s \in SearchIds : \E i \in 1..Len(search[s].enr) : SfcDetailSettles(s, i)

SpecSearch == InitSearch /\ [][NextSearch]_vars

(***************************************************************************)
(* onAdjustQty and onDiscardOrder (worklist controller)                    *)
(***************************************************************************)
\* what the quantity input holds: the handler does not validate it
QtyInputs == {EMPTY, <<"7">>}

\* the POST of one of the two handlers
PostCall(kind, target, quantity) ==
    [kind |-> kind, target |-> target, quantity |-> quantity, st |-> "inflight"]

\* onAdjustQty: one setQuantity POST for the parent SFC recorded by
\* onRadioSelect, with the quantity entered
OnAdjustQty(a) ==
    /\ variant = "worklist"
    /\ FreeAttempt(a)
    /\ \E qtyToUpdate \in QtyInputs :
         attempt' = [attempt EXCEPT ![a] =
             [IdleAttempt EXCEPT !.pc = "adjust", !.parentSFC = oParentSFCNumber,
                                 !.calls = <<PostCall("setQuantity", oParentSFCNumber,
                                                      qtyToUpdate)>>]]
    /\ UNCHANGED <<variant, backend, filter, validation, orders, selectedOrderNo,
                   selectedExecutionStatus, oOrderNumber, oParentSFCNumber, search>>

\* onDiscardOrder: one discard POST for the order recorded by onRadioSelect
OnDiscardOrder(a) ==
    /\ variant = "worklist"
    /\ FreeAttempt(a)
    /\ attempt' = [attempt EXCEPT ![a] =
           [IdleAttempt EXCEPT !.pc = "discard", !.orderNo = oOrderNumber,
                               !.calls = <<PostCall("discard", oOrderNumber, EMPTY)>>]]
    /\ UNCHANGED <<variant, backend, filter, validation, orders, selectedOrderNo,
                   selectedExecutionStatus, oOrderNumber, oParentSFCNumber, search>>

\* the message of the callback that ajaxPostRequest calls: the error callback
\* of onAdjustQty reads error.error.message and shows nothing when the error
\* has no body
PostMsgs(handler, outcome) ==
    IF handler = "adjust"
    THEN IF outcome = "ok" THEN <<Msg("qty_set", EMPTY)>>
         ELSE IF outcome = "notok" THEN <<Msg("qty_error", EMPTY)>>
         ELSE <<>>
    ELSE IF outcome = "ok" THEN <<Msg("discarded", EMPTY)>>
         ELSE <<Msg("discard_error", EMPTY)>>

\* faulty variant: the list is searched again after a successful POST
RefreshOnPostSuccess(outcome) == outcome = "ok"

\* neither callback calls onFilterPress
RefreshOnPostSettled(outcome) == FALSE

\* the POST of onAdjustQty or onDiscardOrder settles
PostSettles(a) ==
    /\ attempt[a].pc \in {"adjust", "discard"}
    /\ \E outcome \in Outcomes :
         LET rec == [attempt[a] EXCEPT !.calls = SettleLast(@, outcome)]
             msgs == PostMsgs(attempt[a].pc, outcome)
         IN  IF RefreshOnPostSettled(outcome)
             THEN ReturnedWithRefresh(a, rec, msgs)
             ELSE Returned(a, rec, msgs) /\ UNCHANGED <<validation, search>>
    /\ UNCHANGED <<variant, backend, filter, orders, selectedOrderNo,
                   selectedExecutionStatus, oOrderNumber, oParentSFCNumber>>

\* the worklist controller after construction
InitAdjust == Init /\ variant = "worklist"

\* the operator searches, selects a row, adjusts the quantity or discards
NextAdjust ==
    \/ Quiet /\ OnFilterPress
    \/ \E s \in SearchIds : ListSettles(s)
    \/ \E s \in SearchIds : \E i \in 1..Len(search[s].enr) : OrderDetailSettles(s, i)
    \/ \E s \in SearchIds : \E i \in 1..Len(search[s].enr) : SfcDetailSettles(s, i)
    \/ \E i \in 1..Len(orders) : Quiet /\ OnRadioSelect(i)
    \/ \E a \in AttemptIds : Quiet /\ OnAdjustQty(a)
    \/ \E a \in AttemptIds : Quiet /\ OnDiscardOrder(a)
    \/ \E a \in AttemptIds : PostSettles(a)

SpecAdjust == InitAdjust /\ [][NextAdjust]_vars

(***************************************************************************)
(* Searches with every kind of filter input                                *)
(***************************************************************************)
\* an order scheduled from start to end
ScheduledOrder(order, status, start, end) ==
    [RawOrder(order, status) EXCEPT !.scheduledStartDate = start,
                                    !.scheduledCompletionDate = end]

Reverse(s) == [i \in 1..Len(s) |-> s[Len(s) + 1 - i]]

\* upstream lists of five orders: one inside the first two days, one that
\* starts inside and ends later, one whose dates are the wrong way round and
\* has no status, one without order number and start date, one whose
\* completion date is no date; and the same list in the opposite order
FilterBackends ==
    LET list == <<ScheduledOrder(OA, "ACTIVE", 1, 2),
                  ScheduledOrder(<<"B", "A">>, "NEW", 2, 3),
                  ScheduledOrder(OB, UNDEF, 3, 1),
                  ScheduledOrder(EMPTY, "NEW", NoDate, 2),
                  ScheduledOrder(OC, "NEW", 1, BadDate)>>
    IN  {list, Reverse(list)}

\* what the operator can enter in a date picker: nothing, text that is no
\* date, or a day
DateInputs == {NoDate, BadDate, 1, 2}

\* every combination of the five filter inputs
AllFilters ==
    [material : {EMPTY, <<" ">>, <<"M">>}, executionStatus : {"", "NEW"},
     orderNumber : {EMPTY, <<"A", " ">>}, dateFrom : DateInputs, dateTo : DateInputs]

\* the rows an earlier search left on display: its detail lookups found nothing
EarlierRows(v, list) ==
    CombineRows(v, list, [i \in 1..Len(list) |->
                              [pc |-> "done", parentSFC |-> DASH, qty |-> DASH]])

\* the view is empty, or shows the rows of an earlier search with the first
\* row selected
InitFilter ==
    /\ variant \in Variants
    /\ backend \in FilterBackends
    /\ filter \in AllFilters
    /\ validation = ""
    /\ orders \in {<<>>, EarlierRows(variant, backend)}
    /\ selectedOrderNo = IF orders # <<>> /\ variant = "parent"
                         THEN orders[1].orderNo ELSE EMPTY
    /\ selectedExecutionStatus =
           IF variant # "parent" THEN UNDEF
           ELSE IF orders # <<>> THEN orders[1].executionStatus ELSE ""
    /\ oOrderNumber = IF orders # <<>> /\ variant = "worklist"
                      THEN orders[1].orderNo ELSE EMPTY
    /\ oParentSFCNumber = IF orders # <<>> /\ variant = "worklist"
                          THEN orders[1].parentSFC ELSE EMPTY
    /\ search = [s \in SearchIds |-> IdleSearch]
    /\ attempt = [a \in AttemptIds |-> IdleAttempt]

NextFilter ==
    \/ Quiet /\ OnFilterPress
    \/ \E s \in SearchIds : ListSettles(s)
    \/ \E s \in SearchIds : \E i \in 1..Len(search[s].enr) : OrderDetailSettles(s, i)
    \/ \E s \in SearchIds : \E i \in 1..Len(search[s].enr) : SfcDetailSettles(s, i)

SpecFilter == InitFilter /\ [][NextFilter]_vars

(***************************************************************************)
(* Searches over orders with any of their fields missing                   *)
(***************************************************************************)
\* the three units of measure of an order, each present or not
UomOrders ==
    {[RawOrder(OA, "ACTIVE") EXCEPT !.productionUom = p, !.erpUnitOfMeasure = e,
                                    !.baseUom = b] :
        p \in {EMPTY, <<"E", "A">>}, e \in {EMPTY, <<"P", "C">>},
        b \in {EMPTY, <<"K", "G">>}}

\* the material of an order: absent, without version and description, complete
Materials ==
    {Material(FALSE, EMPTY, EMPTY), Material(TRUE, EMPTY, EMPTY),
     Material(TRUE, <<"1">>, <<"d">>)}

\* orders that are not enriched, each displayed field present or missing
SparseOrders ==
    [order : {EMPTY, OA}, executionStatus : {UNDEF, "NEW"}, material : Materials,
     scheduledStartDate : {NoDate, 1}, scheduledCompletionDate : {NoDate, BadDate, 2},
     productionUom : {EMPTY}, erpUnitOfMeasure : {<<"P", "C">>}, baseUom : {EMPTY},
     buildQuantity : {NoNum, 5}, doneQuantity : {NoNum, 2}, releasedQuantity : {NoNum, 3},
     dmReleasedQty : {NoNum, 1}, priority : {NoNum, 0, 7}]

\* upstream lists of one order
MapBackends == {<<o>> : o \in UomOrders \cup SparseOrders}

InitMap ==
    /\ variant \in Variants
    /\ backend \in MapBackends
    /\ filter \in {f \in FilterInputs : Trim(f.material) # EMPTY}
    /\ validation = ""
    /\ orders = <<>>
    /\ selectedOrderNo = EMPTY
    /\ selectedExecutionStatus = IF variant = "parent" THEN "" ELSE UNDEF
    /\ oOrderNumber = EMPTY
    /\ oParentSFCNumber = EMPTY
    /\ search = [s \in SearchIds |-> IdleSearch]
    /\ attempt = [a \in AttemptIds |-> IdleAttempt]

NextMap ==
    \/ Quiet /\ OnFilterPress
    \/ \E s \in SearchIds : ListSettles(s)
    \/ \E s \in SearchIds : \E i \in 1..Len(search[s].enr) : OrderDetailSettles(s, i)
    \/ \E s \in SearchIds : \E i \in 1..Len(search[s].enr) : SfcDetailSettles(s, i)

SpecMap == InitMap /\ [][NextMap]_vars

(***************************************************************************)
(* Properties                                                              *)
(***************************************************************************)
CallsOf(calls, kind) ==
    LET IsKind(c) == c.kind = kind IN SelectSeq(calls, IsKind)
TargetsOf(calls, kind) ==
    [i \in 1..Len(CallsOf(calls, kind)) |-> CallsOf(calls, kind)[i].target]
MsgsOf(msgs, kind) ==
    LET IsKind(m) == m.kind = kind IN SelectSeq(msgs, IsKind)
Shown(rec, kind) == MsgsOf(rec.msgs, kind) # <<>>
Invoked(rec) == rec.pc # "idle"
Selected(rec) == Invoked(rec) /\ rec.orderNo # EMPTY

\* C1: in the parent-SFC controller every completion attempt made with a
\* selected order has issued the order-completion POST exactly once by the
\* time it ends, whatever happened before it.
C1_CompletionPostExactlyOnce ==
    \A a \in AttemptIds :
        (variant = "parent" /\ Selected(attempt[a]))
        => /\ Len(CallsOf(attempt[a].calls, "complete")) <= 1
           /\ attempt[a].pc = "done" => Len(CallsOf(attempt[a].calls, "complete")) = 1

\* C2 as stated: every invocation of onCompleteOrder, in either controller,
\* has triggered a re-query (a call of onFilterPress) by the time it ends.
C2_AlwaysRequeried ==
    \A a \in AttemptIds : attempt[a].pc = "done" => attempt[a].refreshes >= 1

\* the attempt has reached the end of its workflow: the order-completion POST
\* has settled (parent-SFC controller), the invalidation loop has run over all
\* its SFCs (worklist controller)
WorkflowEnded(rec) ==
    /\ rec.pc = "done"
    /\ IF variant = "parent"
       THEN /\ CallsOf(rec.calls, "complete") # <<>>
            /\ \A i \in 1..Len(rec.calls) : rec.calls[i].st # "inflight"
       ELSE /\ rec.text = "array"
            /\ rec.sfcs # <<>>
            /\ Len(CallsOf(rec.calls, "invalidate")) = Len(rec.todo)
            /\ \A i \in 1..Len(rec.calls) : rec.calls[i].st # "inflight"

\* C2: an invocation of onCompleteOrder calls onFilterPress exactly once when
\* it reaches the end of its workflow, on success and on failure of the calls
\* it made, and not at all when it ends earlier or while it is running.
C2_RequeriedAtWorkflowEnd ==
    \A a \in AttemptIds :
        /\ WorkflowEnded(attempt[a]) => attempt[a].refreshes = 1
        /\ ~WorkflowEnded(attempt[a]) => attempt[a].refreshes = 0
        /\ (variant = "parent" /\ attempt[a].pc = "done"
            /\ CallsOf(attempt[a].calls, "complete") # <<>>) => WorkflowEnded(attempt[a])

C2_Witness ==
    \E a \in AttemptIds :
        /\ variant = "parent"
        /\ attempt[a].pc = "done"
        /\ \E i \in 1..Len(attempt[a].calls) :
             attempt[a].calls[i].kind = "complete" /\ attempt[a].calls[i].st # "ok"
        /\ attempt[a].refreshes = 1

\* the SFCs of the worklist entries of the given order in status NEW, IN_QUEUE
\* or HOLD, in worklist order
ExpectedInvalidations(sfcs, orderNo) ==
    LET Match(e) == e.order = orderNo /\ e.status \in {"NEW", "IN_QUEUE", "HOLD"}
        kept == SelectSeq(sfcs, Match)
    IN  [i \in 1..Len(kept) |-> kept[i].sfc]

\* C3: in the worklist controller, for a selected order recorded as
\* NOT_IN_EXECUTION, the invalidate PATCHes issued are, one per entry and in
\* worklist order, those of the worklist entries of the selected order whose
\* status is NEW, IN_QUEUE or HOLD: a prefix of them while the loop runs, all
\* of them when the attempt ends, and none for any other entry.
C3_InvalidatesExactlyMatchingEntries ==
    \A a \in AttemptIds :
        (variant = "worklist" /\ Selected(attempt[a])
         /\ attempt[a].status = "NOT_IN_EXECUTION")
        => LET issued == TargetsOf(attempt[a].calls, "invalidate")
               expected == ExpectedInvalidations(attempt[a].sfcs, attempt[a].orderNo)
           IN  /\ Len(issued) <= Len(expected)
               /\ issued = SubSeq(expected, 1, Len(issued))
               /\ attempt[a].pc = "done" => issued = expected

C3_Witness ==
    \E a \in AttemptIds :
        /\ variant = "worklist"
        /\ attempt[a].pc = "done"
        /\ attempt[a].status = "NOT_IN_EXECUTION"
        /\ Len(attempt[a].sfcs) >= 2
        /\ attempt[a].sfcs[1].status = "ACTIVE"
        /\ TargetsOf(attempt[a].calls, "invalidate") = <<attempt[a].sfcs[2].sfc>>

FailureReports(rec, sfc) ==
    LET Names(m) == m.kind \in {"failed_invalidate", "error_invalidating"} /\ m.arg = sfc
    IN  Len(SelectSeq(rec.msgs, Names))
FailedCalls(rec, sfc) ==
    LET Failed(c) == c.kind = "invalidate" /\ c.target = sfc /\ c.st \in {"notok", "throw"}
    IN  Len(SelectSeq(rec.calls, Failed))

\* C4: in the worklist controller a failed invalidate call (non-success
\* response or network error) is reported for its SFC, once per failure, and
\* never ends the loop: the loop stands at the call it has just issued, and
\* when the attempt ends after the loop every SFC of the filtered list has
\* been attempted, whatever the outcomes were.
C4_FailureReportedLoopContinues ==
    \A a \in AttemptIds :
        variant = "worklist"
        => LET rec == attempt[a]
               issued == TargetsOf(rec.calls, "invalidate")
           IN  /\ \A i \in 1..Len(rec.todo) :
                     FailureReports(rec, rec.todo[i]) = FailedCalls(rec, rec.todo[i])
               /\ rec.pc = "w_inval" => issued = SubSeq(rec.todo, 1, rec.idx)
               /\ (rec.pc = "done" /\ rec.idx >= 1) => issued = rec.todo

C4_Witness ==
    \E a \in AttemptIds :
        /\ variant = "worklist"
        /\ attempt[a].pc = "done"
        /\ Len(CallsOf(attempt[a].calls, "invalidate")) = 2
        /\ CallsOf(attempt[a].calls, "invalidate")[1].st \in {"notok", "throw"}
        /\ CallsOf(attempt[a].calls, "invalidate")[2].st = "ok"
        /\ FailureReports(attempt[a], attempt[a].todo[1]) = 1

\* C5: within one worklist completion attempt at most one invalidate call is
\* in flight at any time, and a call is in flight only when every call issued
\* before it has settled.
C5_InvalidationSequential ==
    \A a \in AttemptIds :
        variant = "worklist"
        => LET calls == attempt[a].calls
           IN  \A i \in 1..Len(calls) :
                 (calls[i].kind = "invalidate" /\ calls[i].st = "inflight")
                 => /\ i = Len(calls)
                    /\ \A j \in 1..(i - 1) : calls[j].st # "inflight"

C5_Witness ==
    \E a \in AttemptIds :
        /\ variant = "worklist"
        /\ attempt[a].pc = "w_inval"
        /\ Len(CallsOf(attempt[a].calls, "invalidate")) = 2
        /\ CallsOf(attempt[a].calls, "invalidate")[1].st # "inflight"
        /\ CallsOf(attempt[a].calls, "invalidate")[2].st = "inflight"

\* C6: in every controller a completion attempt on a selected order whose
\* recorded status is ACTIVE is refused with a message and issues no remote
\* call at all.
C6_ActiveRefusedWithoutCalls ==
    \A a \in AttemptIds :
        (Selected(attempt[a]) /\ attempt[a].status = "ACTIVE")
        => /\ attempt[a].calls = <<>>
           /\ attempt[a].pc = "done"
           /\ Shown(attempt[a], "active_sfcs")

\* C7: in both controllers an attempt made with no order selected ends at once
\* with the select-an-order message and has issued no remote call.
C7_NoSelectionRejected ==
    \A a \in AttemptIds :
        (Invoked(attempt[a]) /\ attempt[a].orderNo = EMPTY)
        => /\ attempt[a].pc = "done"
           /\ attempt[a].msgs = <<Msg("select_order", EMPTY)>>
           /\ attempt[a].calls = <<>>

C7_Witness ==
    \E a \in AttemptIds :
        /\ attempt[a].pc = "done"
        /\ attempt[a].orderNo = EMPTY
        /\ attempt[a].status = "NOT_IN_EXECUTION"
        /\ orders # <<>>

\* C8: in the worklist controller an attempt on a selected order whose recorded
\* status is neither ACTIVE nor NOT_IN_EXECUTION ends at once with the generic
\* message and issues no worklist lookup and no invalidate call.
C8_OtherStatusRejected ==
    \A a \in AttemptIds :
        (variant = "worklist" /\ Selected(attempt[a])
         /\ attempt[a].status \notin {"ACTIVE", "NOT_IN_EXECUTION"})
        => /\ attempt[a].pc = "done"
           /\ attempt[a].msgs = <<Msg("only_active_or_nie", EMPTY)>>
           /\ attempt[a].calls = <<>>

C8_Witness ==
    \E a \in AttemptIds :
        /\ variant = "worklist"
        /\ attempt[a].pc = "done"
        /\ attempt[a].orderNo # EMPTY
        /\ attempt[a].status = "NEW"

\* the worklist response arrived and its text was parsed (blank text counting
\* as an empty list)
WorklistParsed(rec) == rec.text \in {"blank", "object", "array"}

\* C9 as stated: in the worklist controller, once the worklist has been fetched
\* and parsed, an empty body counting as an empty list, the attempt ends with
\* the success report and exactly one refresh.
C9_ParsedThenSuccessAndRefresh ==
    \A a \in AttemptIds :
        (variant = "worklist" /\ attempt[a].pc = "done" /\ WorklistParsed(attempt[a]))
        => /\ Len(MsgsOf(attempt[a].msgs, "success")) = 1
           /\ attempt[a].refreshes = 1

\* C9: in the worklist controller, once the worklist has been fetched and
\* parsed to a non-empty array of entries, the attempt runs the invalidation
\* loop to its end and then, all invalidate calls settled and whatever their
\* outcomes, reports success last and exactly once and refreshes exactly once;
\* neither happens before. A blank body, an empty array or a value that is no
\* array ends the attempt with the no-SFCs message alone and no refresh.
C9_NonEmptyWorklistThenSuccessAndRefresh ==
    \A a \in AttemptIds :
        variant = "worklist"
        => LET rec == attempt[a]
           IN  /\ (rec.text = "array" /\ rec.sfcs # <<>> /\ rec.pc = "done")
                  => /\ Len(MsgsOf(rec.msgs, "success")) = 1
                     /\ rec.msgs[Len(rec.msgs)].kind = "success"
                     /\ rec.refreshes = 1
                     /\ Len(CallsOf(rec.calls, "invalidate")) = Len(rec.todo)
                     /\ \A i \in 1..Len(rec.calls) : rec.calls[i].st # "inflight"
               /\ (rec.text = "array" /\ rec.sfcs # <<>> /\ rec.pc # "done")
                  => /\ ~Shown(rec, "success")
                     /\ rec.refreshes = 0
               /\ (rec.pc = "done" /\ WorklistParsed(rec)
                   /\ (rec.text # "array" \/ rec.sfcs = <<>>))
                  => /\ rec.msgs = <<Msg("no_sfcs", rec.orderNo)>>
                     /\ rec.refreshes = 0
                     /\ CallsOf(rec.calls, "invalidate") = <<>>

C9_Witness ==
    \E a \in AttemptIds :
        /\ variant = "worklist"
        /\ attempt[a].pc = "done"
        /\ attempt[a].text = "array"
        /\ Len(CallsOf(attempt[a].calls, "invalidate")) = 2
        /\ \A i \in 1..2 : CallsOf(attempt[a].calls, "invalidate")[i].st # "ok"
        /\ Shown(attempt[a], "success")
        /\ attempt[a].refreshes = 1

\* C10: in the worklist controller, a worklist body that is not blank and is
\* not parseable JSON ends the attempt with the invalid-JSON report, and no
\* invalidate call is issued.
C10_InvalidJsonAborts ==
    \A a \in AttemptIds :
        (variant = "worklist" /\ attempt[a].text = "invalid")
        => /\ attempt[a].pc = "done"
           /\ attempt[a].msgs = <<Msg("invalid_json", EMPTY)>>
           /\ CallsOf(attempt[a].calls, "invalidate") = <<>>

C10_Witness ==
    \E a \in AttemptIds :
        /\ variant = "worklist"
        /\ attempt[a].pc = "done"
        /\ attempt[a].text = "invalid"
        /\ Len(attempt[a].calls) = 1

KindsOf(calls) == [i \in 1..Len(calls) |-> calls[i].kind]

\* the orders in which the parent-SFC controller may have issued what it awaits
ParentCallOrders ==
    {<<>>, <<"complete">>, <<"sfcdetail">>, <<"sfcdetail", "complete">>,
     <<"sfcdetail", "invalidate">>, <<"sfcdetail", "invalidate", "delay">>,
     <<"sfcdetail", "invalidate", "delay", "complete">>}

\* C11: in the parent-SFC controller the calls of one attempt are totally
\* ordered: each is issued when everything issued before it has settled; the
\* order-completion POST comes last, after the SFC-detail lookup if there was
\* one and, if an invalidate PATCH was issued, after that PATCH has settled and
\* the delay started at its settling has elapsed; a delay is taken exactly
\* when an invalidate PATCH was issued and has settled.
C11_ParentCallsTotallyOrdered ==
    \A a \in AttemptIds :
        variant = "parent"
        => LET calls == attempt[a].calls
           IN  /\ KindsOf(calls) \in ParentCallOrders
               /\ \A i \in 1..Len(calls) : calls[i].st = "inflight" => i = Len(calls)
               /\ (\E i \in 1..Len(calls) : calls[i].kind = "delay")
                  <=> (\E i \in 1..Len(calls) :
                          calls[i].kind = "invalidate" /\ calls[i].st # "inflight")

C11_Witness ==
    \E a \in AttemptIds :
        /\ variant = "parent"
        /\ attempt[a].pc = "done"
        /\ KindsOf(attempt[a].calls) = <<"sfcdetail", "invalidate", "delay", "complete">>
        /\ attempt[a].calls[2].st \in {"notok", "throw"}
        /\ attempt[a].calls[3].st = "ok"

\* the status descriptions that denote the status NEW
IsNewStatus(desc) == desc \in {"NEW", "new"}

\* the parent SFC the attempt works on is that of the first displayed row of
\* the selected order: none when there is no such row or the row shows "-"
OfSelectedRow(rec, rows) ==
    /\ (\A i \in 1..Len(rows) : rows[i].orderNo # rec.orderNo) => rec.parentSFC = EMPTY
    /\ \A i \in 1..Len(rows) :
         (rows[i].orderNo = rec.orderNo
          /\ \A j \in 1..(i - 1) : rows[j].orderNo # rec.orderNo)
         => rec.parentSFC = IF rows[i].parentSFC = DASH THEN EMPTY ELSE rows[i].parentSFC

SearchSettles(s) == search[s].pc # "idle" /\ search'[s].pc = "idle"

\* C13: whenever a search settles, also one made after a row was selected, no
\* selection is left: the selected order number and the status recorded with
\* it are both cleared.
C13_SearchClearsSelection ==
    [][\A s \in SearchIds :
          SearchSettles(s)
          => /\ selectedOrderNo' = EMPTY
             /\ selectedExecutionStatus' \in {"", UNDEF}]_vars

\* C14: in each controller that has a completion workflow, onRadioSelect on a
\* displayed row leaves the row's order number in selectedOrderNo and the
\* row's execution status in selectedExecutionStatus.
C14_RadioSelectRecordsSelection ==
    [][\A i \in 1..Len(orders) :
          OnRadioSelect(i)
          => /\ selectedOrderNo' = orders[i].orderNo
             /\ selectedExecutionStatus' = orders[i].executionStatus]_vars

\* the list request of the search was answered with a list
ListOk(srch) ==
    srch.calls # <<>> /\ srch.calls[1].kind = "list" /\ srch.calls[1].st = "ok"
\* the list request of the search failed
ListFailed(srch) ==
    srch.calls # <<>> /\ srch.calls[1].kind = "list"
    /\ srch.calls[1].st \in {"throw", "notok", "badjson"}
\* the requests of one kind issued for the order at position i
RowCalls(srch, kind, i) ==
    LET Is(c) == c.kind = kind /\ c.row = i IN SelectSeq(srch.calls, Is)

\* C15: when the order-list request of a search fails (network error,
\* non-success response, body that is not JSON) the search is over, the
\* displayed list is empty, and the list request is the only request the
\* search has issued.
C15_ListFailureAbortsSearch ==
    \A s \in SearchIds :
        ListFailed(search[s])
        => /\ search[s].pc = "idle"
           /\ Len(search[s].calls) = 1
           /\ (\A x \in SearchIds : search[x].pc = "idle") => orders = <<>>

C15_Witness ==
    \E s \in SearchIds :
        /\ search[s].pc = "idle"
        /\ search[s].calls # <<>>
        /\ search[s].calls[1].st = "badjson"
        /\ orders = <<>>

\* the number of order-detail requests issued for the order at position i is
\* one if its status is in the given set, none otherwise, and a request names
\* that order
DetailFetchedIff(srch, i, statuses) ==
    LET d == RowCalls(srch, "orderdetail", i)
    IN  /\ Len(d) = IF srch.list[i].executionStatus \in statuses THEN 1 ELSE 0
        /\ \A k \in 1..Len(d) : d[k].target = srch.list[i].order

\* C16 as stated: in a search, of any controller, exactly one order-detail
\* request is issued for each order of the filtered list whose status is
\* ACTIVE or NOT_IN_EXECUTION, and none for any other order.
C16_DetailFetchIffEnrichable ==
    \A s \in SearchIds :
        ListOk(search[s])
        => \A i \in 1..Len(search[s].list) :
              DetailFetchedIff(search[s], i, {"ACTIVE", "NOT_IN_EXECUTION"})

\* C16: in a search of the worklist or the parent-SFC controller exactly one
\* order-detail request is issued for each order of the filtered list whose
\* status is ACTIVE or NOT_IN_EXECUTION and none for any other order; in a
\* search of the basic controller the same holds with ACTIVE alone.
C16_DetailFetchPerController ==
    \A s \in SearchIds :
        ListOk(search[s])
        => \A i \in 1..Len(search[s].list) :
              DetailFetchedIff(search[s], i,
                  IF variant = "basic" THEN {"ACTIVE"}
                  ELSE {"ACTIVE", "NOT_IN_EXECUTION"})

C16_Witness ==
    \E s \in SearchIds :
        /\ variant = "parent"
        /\ search[s].pc = "idle"
        /\ Len(search[s].list) = 3
        /\ Len(CallsOf(search[s].calls, "orderdetail")) = 2
        /\ RowCalls(search[s], "orderdetail", 2) = <<>>

\* the parent SFC that the responses to the requests of row i yield
ExpectedParentSFC(srch, i) ==
    LET d == RowCalls(srch, "orderdetail", i)
        Hit(k) == Includes(d[1].sfcs[k], srch.list[i].order)
    IN  IF d # <<>> /\ d[1].st = "ok" /\ \E k \in 1..Len(d[1].sfcs) : Hit(k)
        THEN d[1].sfcs[CHOOSE k \in 1..Len(d[1].sfcs) :
                           Hit(k) /\ \A j \in 1..(k - 1) : ~Hit(j)]
        ELSE DASH

\* the released quantity that the responses to the requests of row i yield
ExpectedQty(v, srch, i) ==
    LET f == RowCalls(srch, "sfcdetail", i)
    IN  IF f # <<>> /\ f[1].st = "ok" /\ f[1].quantity # NoNum
        THEN IF v = "parent"
             THEN NumStr(f[1].quantity) \o <<" ">> \o getOrderUOM(srch.list[i])
             ELSE NumStr(f[1].quantity)
        ELSE DASH

\* C17: a search whose list request succeeded ends, whatever the outcomes of
\* its order-detail and SFC-detail requests were, with one row displayed per
\* order of the filtered list; the parent SFC and the released quantity of a
\* row are what the responses to that row's own requests yield, "-" for a
\* value whose request failed or whose field was missing, so that no row
\* depends on the outcome of another row's requests.
C17_EnrichmentDegradesPerRow ==
    \A s \in SearchIds :
        (search[s].pc = "idle" /\ ListOk(search[s]))
        => /\ Len(orders) = Len(search[s].list)
           /\ \A i \in 1..Len(orders) :
                /\ orders[i].parentSFC = ExpectedParentSFC(search[s], i)
                /\ orders[i].dmReleasedQty = ExpectedQty(variant, search[s], i)
                /\ \A k \in 1..Len(search[s].calls) :
                     (search[s].calls[k].row = i
                      /\ search[s].calls[k].kind = "orderdetail"
                      /\ search[s].calls[k].st # "ok")
                     => orders[i].parentSFC = DASH /\ orders[i].dmReleasedQty = DASH
                /\ \A k \in 1..Len(search[s].calls) :
                     (search[s].calls[k].row = i
                      /\ search[s].calls[k].kind = "sfcdetail"
                      /\ search[s].calls[k].st # "ok")
                     => /\ orders[i].parentSFC = search[s].calls[k].target
                        /\ orders[i].dmReleasedQty = DASH

C17_Witness ==
    \E s \in SearchIds :
        /\ variant = "parent"
        /\ search[s].pc = "idle"
        /\ Len(orders) = 3
        /\ RowCalls(search[s], "orderdetail", 1) # <<>>
        /\ RowCalls(search[s], "orderdetail", 1)[1].st = "throw"
        /\ orders[1].parentSFC = DASH
        /\ RowCalls(search[s], "sfcdetail", 3) # <<>>
        /\ RowCalls(search[s], "sfcdetail", 3)[1].st = "notok"
        /\ orders[3].parentSFC = SC1
        /\ orders[3].dmReleasedQty = DASH

\* C18: when a search has ended with rows, the displayed rows are as many as
\* the orders of the filtered list and row i shows order i of that list, in
\* whatever order the detail responses of the search arrived.
C18_RowsInListOrder ==
    \A s \in SearchIds :
        (search[s].pc = "idle" /\ ListOk(search[s]))
        => /\ search[s].list \in {PostFilter(variant, search[s].crit, backend), <<>>}
           /\ Len(orders) = Len(search[s].list)
           /\ \A i \in 1..Len(orders) :
                /\ orders[i].orderNo = search[s].list[i].order
                /\ orders[i].executionStatus =
                       IF search[s].list[i].executionStatus = UNDEF THEN "-"
                       ELSE search[s].list[i].executionStatus

\* the SFC-detail request of row 3 was issued before that of row 1: the
\* order-detail response of the later order arrived first
C18_Witness ==
    \E s \in SearchIds :
        /\ search[s].pc = "idle"
        /\ Len(orders) = 3
        /\ \E k \in 1..Len(search[s].calls) : \E m \in (k + 1)..Len(search[s].calls) :
             /\ search[s].calls[k].kind = "sfcdetail" /\ search[s].calls[k].row = 3
             /\ search[s].calls[m].kind = "sfcdetail" /\ search[s].calls[m].row = 1
        /\ orders[1].orderNo = OA
        /\ orders[3].orderNo = OC

\* C19: the parent SFC found for an order whose order-detail request was
\* answered is the first element of the response's sfcs list that contains
\* the order number, and "-" when no element does or the list is absent or
\* the request failed: one parent SFC at most per order.
C19_ParentSfcIsFirstMatch ==
    \A s \in SearchIds :
        \A k \in 1..Len(search[s].calls) :
            LET c == search[s].calls[k]
                order == search[s].list[c.row].order
                found == search[s].enr[c.row].parentSFC
            IN  (c.kind = "orderdetail" /\ c.st # "inflight")
                => \/ /\ c.st = "ok"
                      /\ \E m \in 1..Len(c.sfcs) :
                           /\ Includes(c.sfcs[m], order)
                           /\ \A j \in 1..(m - 1) : ~Includes(c.sfcs[j], order)
                           /\ found = c.sfcs[m]
                   \/ /\ c.st # "ok" \/ \A m \in 1..Len(c.sfcs) : ~Includes(c.sfcs[m], order)
                      /\ found = DASH

C19_Witness ==
    \E s \in SearchIds :
        \E k \in 1..Len(search[s].calls) :
            /\ search[s].calls[k].kind = "orderdetail"
            /\ search[s].calls[k].target = OA
            /\ search[s].calls[k].sfcs = <<SX, SA1, SA2>>
            /\ search[s].enr[search[s].calls[k].row].parentSFC = SA1

\* C20: an SFC-detail request of a search is issued for an order after that
\* order's order-detail request was answered with success, and for the parent
\* SFC found in that answer; there is at most one per order, and none for an
\* order whose answer held no parent SFC or whose order-detail request failed.
C20_SfcDetailAfterParentFound ==
    \A s \in SearchIds :
        \A i \in 1..Len(search[s].list) :
            LET f == RowCalls(search[s], "sfcdetail", i)
                d == RowCalls(search[s], "orderdetail", i)
            IN  /\ Len(f) <= 1
                /\ f # <<>>
                   => /\ d # <<>> /\ d[1].st = "ok"
                      /\ \E m \in 1..Len(d[1].sfcs) :
                           /\ d[1].sfcs[m] = f[1].target
                           /\ Includes(f[1].target, search[s].list[i].order)
                      /\ \E k \in 1..Len(search[s].calls) :
                           \E m \in (k + 1)..Len(search[s].calls) :
                             /\ search[s].calls[k] = d[1]
                             /\ search[s].calls[m] = f[1]
                /\ (d # <<>> /\ d[1].st \notin {"inflight", "ok"}) => f = <<>>
                /\ (d # <<>> /\ d[1].st = "ok"
                    /\ \A m \in 1..Len(d[1].sfcs) :
                         ~Includes(d[1].sfcs[m], search[s].list[i].order))
                   => f = <<>>

C20_Witness ==
    \E s \in SearchIds :
        /\ variant = "worklist"
        /\ search[s].pc = "enrich"
        /\ RowCalls(search[s], "sfcdetail", 3) # <<>>
        /\ RowCalls(search[s], "sfcdetail", 3)[1].st = "inflight"
        /\ RowCalls(search[s], "orderdetail", 1)[1].st = "inflight"

\* a date was entered and is a date
DateGiven(value) == value # NoDate /\ value # BadDate
\* the search has issued its list request
Requested(srch) == srch.calls # <<>> /\ srch.calls[1].kind = "list"
\* the search dimensions a request can carry besides the plant
Dimensions == {"material", "executionStatus", "orderNumber", "dateFrom", "dateTo"}
\* the press of Filter was rejected: a message names the reason, no request is
\* issued, the displayed orders and the selection stay as they were
Rejected ==
    /\ validation' \notin {"", "ok"}
    /\ search' = search
    /\ orders' = orders
    /\ selectedOrderNo' = selectedOrderNo
    /\ selectedExecutionStatus' = selectedExecutionStatus
    /\ oOrderNumber' = oOrderNumber
    /\ oParentSFCNumber' = oParentSFCNumber

\* C21: in every controller, a press of Filter with exactly one of Date From
\* and Date To given is rejected with a validation message: no request is
\* issued, the displayed orders and the selection stay as they were.
C21_OneDateRejected ==
    [][(OnFilterPress /\ (DateGiven(filter.dateFrom) # DateGiven(filter.dateTo)))
       => Rejected]_vars

\* C22: in every controller, a press of Filter with both dates given and Date
\* From later than Date To is rejected with a validation message and issues no
\* request; every list request that carries both dates has dateFrom at or
\* before dateTo.
C22_ReversedDatesRejected ==
    /\ [][(OnFilterPress /\ DateGiven(filter.dateFrom) /\ DateGiven(filter.dateTo)
           /\ filter.dateFrom > filter.dateTo)
          => Rejected]_vars
    /\ [](\A s \in SearchIds :
            (Requested(search[s]) /\ {"dateFrom", "dateTo"} \subseteq search[s].query.names)
            => /\ filter.dateFrom <= filter.dateTo
               /\ search[s].query.dateFrom = <<"D">> \o NumStr(filter.dateFrom)
               /\ search[s].query.dateTo = <<"D">> \o NumStr(filter.dateTo))

\* reversed dates were rejected while earlier rows stay on display
C22_Witness ==
    /\ validation = "date_order"
    /\ filter.dateFrom = 2 /\ filter.dateTo = 1
    /\ orders # <<>>
    /\ \A s \in SearchIds : ~Requested(search[s])

\* C23: in the worklist and the parent-SFC controller a press of Filter with
\* no material, no execution status, no order number and no complete date
\* range is rejected with a validation message and issues no request; every
\* list request of these controllers carries at least one search dimension
\* besides the plant.
C23_AtLeastOneDimension ==
    /\ [][(OnFilterPress /\ variant # "basic"
           /\ Trim(filter.material) = EMPTY /\ filter.executionStatus = ""
           /\ Trim(filter.orderNumber) = EMPTY
           /\ ~(DateGiven(filter.dateFrom) /\ DateGiven(filter.dateTo)))
          => Rejected]_vars
    /\ [](\A s \in SearchIds :
            (variant # "basic" /\ Requested(search[s]))
            => search[s].query.names \cap Dimensions # {})

\* a search without any parameter was rejected while earlier rows stay on display
C23_Witness ==
    /\ variant = "worklist"
    /\ validation = "no_parameter"
    /\ filter.material = <<" ">>
    /\ orders # <<>>
    /\ \A s \in SearchIds : ~Requested(search[s])

\* C24: every list request carries the plant, and carries material,
\* executionStatus, orderNumber, dateFrom and dateTo exactly when the
\* corresponding criterion (the trimmed text, the selected status, the parsed
\* date) is not empty, with that criterion as its value; a criterion that is
\* empty is not sent at all.
C24_ParamsIffCriterion ==
    \A s \in SearchIds :
        Requested(search[s])
        => LET q == search[s].query
           IN  /\ "plant" \in q.names
               /\ "material" \in q.names <=> Trim(filter.material) # EMPTY
               /\ "executionStatus" \in q.names <=> filter.executionStatus # ""
               /\ "orderNumber" \in q.names <=> Trim(filter.orderNumber) # EMPTY
               /\ "dateFrom" \in q.names <=> DateGiven(filter.dateFrom)
               /\ "dateTo" \in q.names <=> DateGiven(filter.dateTo)
               /\ "material" \in q.names
                  => q.material = Trim(filter.material) /\ q.material # EMPTY
               /\ "executionStatus" \in q.names
                  => q.executionStatus = filter.executionStatus
               /\ "orderNumber" \in q.names
                  => q.orderNumber = Trim(filter.orderNumber) /\ q.orderNumber # EMPTY
               /\ "dateFrom" \in q.names => q.dateFrom # EMPTY
               /\ "dateTo" \in q.names => q.dateTo # EMPTY

\* a request with the order number and without material, status and dates
C24_Witness ==
    \E s \in SearchIds :
        /\ Requested(search[s])
        /\ search[s].query.names = {"size", "page", "plant", "orderNumber"}
        /\ search[s].query.orderNumber = OA
        /\ filter.orderNumber = <<"A", " ">>
        /\ filter.dateFrom = BadDate

\* a is b with some elements left out
RECURSIVE IsSubSeq(_, _)
IsSubSeq(a, b) ==
    IF a = <<>> THEN TRUE
    ELSE IF b = <<>> THEN FALSE
    ELSE IF Head(a) = Head(b) THEN IsSubSeq(Tail(a), Tail(b))
    ELSE IsSubSeq(a, Tail(b))

\* C25: when a search has ended with rows, whatever list the backend returned,
\* every displayed row has the requested execution status if one was
\* requested, and an order number that contains the requested text if one was
\* requested; the displayed rows are, in the same order, orders of the list
\* the backend returned.
C25_RowsMatchCriteria ==
    \A s \in SearchIds :
        (search[s].pc = "idle" /\ ListOk(search[s]))
        => /\ \A i \in 1..Len(orders) :
                /\ filter.executionStatus # ""
                   => orders[i].executionStatus = filter.executionStatus
                /\ Trim(filter.orderNumber) # EMPTY
                   => Includes(orders[i].orderNo, Trim(filter.orderNumber))
           /\ IsSubSeq(search[s].list, search[s].calls[1].content)
           /\ Len(orders) = Len(search[s].list)
           /\ \A i \in 1..Len(orders) :
                /\ search[s].list[i].order # EMPTY
                   => orders[i].orderNo = search[s].list[i].order
                /\ search[s].list[i].executionStatus # UNDEF
                   => orders[i].executionStatus = search[s].list[i].executionStatus

\* of five orders returned, the one in status NEW whose number contains "A"
\* is displayed
C25_Witness ==
    \E s \in SearchIds :
        /\ search[s].pc = "idle" /\ ListOk(search[s])
        /\ Len(search[s].calls[1].content) = 5
        /\ filter.executionStatus = "NEW"
        /\ filter.orderNumber = <<"A", " ">>
        /\ Len(orders) = 1
        /\ orders[1].orderNo = <<"B", "A">>

\* C26 as stated: for every list returned and every date range, the date
\* filter of the controller that searched keeps exactly the orders that the
\* date filter of each other controller keeps.
C26_OneDateRangePolicy ==
    \A s \in SearchIds :
        ListOk(search[s])
        => \A v \in Variants :
              search[s].list = PostFilter(v, search[s].crit, search[s].calls[1].content)

\* C26: with both dates given, the basic and the worklist controller keep the
\* orders that have a start and a completion date, start at or after Date From
\* and complete at or before Date To; the parent-SFC controller keeps the
\* orders that have a start date and start between Date From and Date To,
\* whatever their completion date.
C26_TwoDateRangePolicies ==
    \A s \in SearchIds :
        (ListOk(search[s]) /\ DateGiven(filter.dateFrom) /\ DateGiven(filter.dateTo))
        => LET start(o) == o.scheduledStartDate
               end(o) == o.scheduledCompletionDate
               InRange(o) ==
                   IF variant = "parent"
                   THEN /\ DateGiven(start(o))
                        /\ filter.dateFrom <= start(o) /\ start(o) <= filter.dateTo
                   ELSE /\ DateGiven(start(o)) /\ DateGiven(end(o))
                        /\ filter.dateFrom <= start(o) /\ end(o) <= filter.dateTo
               Kept(o) ==
                   /\ InRange(o)
                   /\ filter.executionStatus # "" => o.executionStatus = filter.executionStatus
                   /\ Trim(filter.orderNumber) # EMPTY
                      => Includes(o.order, Trim(filter.orderNumber))
           IN  search[s].list = SelectSeq(search[s].calls[1].content, Kept)

\* the parent-SFC controller keeps an order that starts inside the range and
\* completes after it
C26_Witness ==
    \E s \in SearchIds :
        /\ variant = "parent"
        /\ ListOk(search[s])
        /\ filter.dateFrom = 1 /\ filter.dateTo = 2
        /\ \E i \in 1..Len(search[s].list) :
             /\ search[s].list[i].scheduledStartDate = 2
             /\ search[s].list[i].scheduledCompletionDate = 3

\* the search has ended and its rows are displayed
RowsShown(s) == search[s].pc = "idle" /\ ListOk(search[s])

\* C27: the unit of measure shown with the quantities of a row is the
\* production unit of the order when it has one, otherwise its ERP unit when
\* it has one, otherwise its base unit when it has one, otherwise empty: a
\* unit of lower precedence never shows while one of higher precedence is
\* there.
C27_UomPrecedence ==
    \A s \in SearchIds :
        RowsShown(s)
        => \A i \in 1..Len(orders) :
              LET o == search[s].list[i]
                  uom == IF o.productionUom # EMPTY THEN o.productionUom
                         ELSE IF o.erpUnitOfMeasure # EMPTY THEN o.erpUnitOfMeasure
                         ELSE IF o.baseUom # EMPTY THEN o.baseUom
                         ELSE EMPTY
              IN  /\ o.buildQuantity # NoNum
                     => orders[i].buildQty = NumStr(o.buildQuantity) \o <<" ">> \o uom
                  /\ o.doneQuantity # NoNum
                     => orders[i].doneQty = NumStr(o.doneQuantity) \o <<" ">> \o uom

\* production unit EA and ERP unit PC: the row shows EA
C27_Witness ==
    \E s \in SearchIds :
        /\ RowsShown(s)
        /\ Len(orders) = 1
        /\ search[s].list[1].productionUom = <<"E", "A">>
        /\ search[s].list[1].erpUnitOfMeasure = <<"P", "C">>
        /\ orders[1].buildQty = <<"5", " ", "E", "A">>

\* the fields of a row, other than the material description, show "-" where
\* the order lacks their source
PlaceholdersShown(v, o, row) ==
    /\ o.order = EMPTY => row.orderNo = DASH
    /\ ~o.material.present => row.materialLine = DASH
    /\ o.executionStatus = UNDEF => row.executionStatus = "-"
    /\ o.buildQuantity = NoNum => row.buildQty = DASH
    /\ o.doneQuantity = NoNum => row.doneQty = DASH
    /\ (o.buildQuantity = NoNum
        \/ (IF v = "parent" THEN o.releasedQuantity ELSE o.doneQuantity) = NoNum)
       => row.availableQty = DASH
    /\ o.scheduledStartDate = NoDate
       => SubSeq(row.scheduledStartEnd, 1, 2) = <<"-", "\n">>
    /\ o.scheduledCompletionDate = NoDate
       => SubSeq(row.scheduledStartEnd, Len(row.scheduledStartEnd) - 1,
                 Len(row.scheduledStartEnd)) = <<"\n", "-">>
    /\ o.priority = NoNum => row.priority = DASH

\* C28 as stated: every display field of a row whose source is missing from
\* the order shows "-": order number, material line, material description,
\* execution status, build, done and available quantity, each scheduled date
\* and priority.
C28_PlaceholderForEveryField ==
    \A s \in SearchIds :
        RowsShown(s)
        => \A i \in 1..Len(orders) :
              /\ PlaceholdersShown(variant, search[s].list[i], orders[i])
              /\ (~search[s].list[i].material.present
                  \/ search[s].list[i].material.description = EMPTY)
                 => orders[i].materialDesc = DASH

\* C28: a row shows "-" for order number, material line, execution status,
\* build, done and available quantity, each scheduled date and priority when
\* the order lacks their source; the material description of an order without
\* material, or without description, is the empty text.
C28_PlaceholderButDescription ==
    \A s \in SearchIds :
        RowsShown(s)
        => \A i \in 1..Len(orders) :
              /\ PlaceholdersShown(variant, search[s].list[i], orders[i])
              /\ (~search[s].list[i].material.present
                  \/ search[s].list[i].material.description = EMPTY)
                 => orders[i].materialDesc = EMPTY

\* an order with nothing but a completion date that is no date
C28_Witness ==
    \E s \in SearchIds :
        /\ RowsShown(s)
        /\ Len(orders) = 1
        /\ search[s].list[1].order = EMPTY
        /\ ~search[s].list[1].material.present
        /\ search[s].list[1].buildQuantity = NoNum
        /\ search[s].list[1].scheduledStartDate = NoDate
        /\ search[s].list[1].priority = NoNum
        /\ orders[1].orderNo = DASH
        /\ orders[1].materialLine = DASH
        /\ orders[1].materialDesc = EMPTY
        /\ orders[1].buildQty = DASH
        /\ orders[1].availableQty = DASH
        /\ orders[1].scheduledStartEnd = <<"-", "\n", "-">>
        /\ orders[1].priority = DASH

\* C29: in the worklist and the parent-SFC controller the released quantity
\* of a row is "-" when the SFC detail gave no quantity, and otherwise the
\* quantity followed by the unit of measure of the order.
C29_ReleasedQtyWithUnit ==
    \A s \in SearchIds :
        (RowsShown(s) /\ variant # "basic")
        => \A i \in 1..Len(orders) :
              LET f == RowCalls(search[s], "sfcdetail", i)
                  obtained == f # <<>> /\ f[1].st = "ok" /\ f[1].quantity # NoNum
              IN  orders[i].dmReleasedQty =
                      IF obtained
                      THEN NumStr(f[1].quantity) \o <<" ">>
                           \o getOrderUOM(search[s].list[i])
                      ELSE DASH

\* the attempt is an invocation of onAdjustQty or onDiscardOrder
IsPost(rec) ==
    rec.calls # <<>> /\ rec.calls[1].kind \in {"setQuantity", "discard"}

\* C30: an invocation of onAdjustQty or onDiscardOrder issues one POST, for
\* the parent SFC or the order recorded by onRadioSelect, and no other request
\* whether the POST succeeds or fails: no retry and no new search; neither the
\* invocation nor the settling of its POST changes the displayed orders or the
\* selection.
C30_PostOnceNoRefresh ==
    /\ [][\A a \in AttemptIds :
            (OnAdjustQty(a) \/ OnDiscardOrder(a) \/ PostSettles(a))
            => /\ orders' = orders
               /\ search' = search
               /\ selectedOrderNo' = selectedOrderNo
               /\ selectedExecutionStatus' = selectedExecutionStatus
               /\ oOrderNumber' = oOrderNumber
               /\ oParentSFCNumber' = oParentSFCNumber
               /\ Len(attempt'[a].calls) = 1
               /\ attempt'[a].calls[1].target =
                      IF attempt'[a].calls[1].kind = "discard"
                      THEN oOrderNumber ELSE oParentSFCNumber]_vars
    /\ [](\A a \in AttemptIds :
            IsPost(attempt[a])
            => /\ Len(attempt[a].calls) = 1
               /\ attempt[a].refreshes = 0
               /\ attempt[a].pc = "done" <=> attempt[a].calls[1].st # "inflight")

\* the discard of the selected order A has failed; the order is still displayed
C30_Witness ==
    \E a \in AttemptIds :
        /\ attempt[a].pc = "done"
        /\ IsPost(attempt[a])
        /\ attempt[a].calls[1].kind = "discard"
        /\ attempt[a].calls[1].target = OA
        /\ attempt[a].calls[1].st = "notok"
        /\ oOrderNumber = OA
        /\ orders # <<>>

\* a step of onCompleteOrder: its invocation, or the settling of something it
\* awaits
CompletionStep ==
    \/ \E a \in AttemptIds : CompleteOrderWorklist(a) \/ CompleteOrderParent(a)
    \/ AttemptSettles

\* C31: no step of onCompleteOrder, from its invocation to the call of
\* onFilterPress that ends it, changes the displayed rows or the selection;
\* the displayed rows change only when a request of a search settles.
C31_CompletionLeavesRows ==
    [][/\ CompletionStep
          => /\ orders' = orders
             /\ selectedOrderNo' = selectedOrderNo
             /\ selectedExecutionStatus' = selectedExecutionStatus
             /\ oOrderNumber' = oOrderNumber
             /\ oParentSFCNumber' = oParentSFCNumber
       /\ orders' # orders => SearchRequestSettles]_vars

\* the order-completion request has settled and the re-query is in flight: the
\* row of the completed order is still displayed and selected
C31_Witness ==
    \E a \in AttemptIds : \E s \in SearchIds :
        /\ variant = "parent"
        /\ attempt[a].pc = "done"
        /\ attempt[a].refreshes = 1
        /\ CallsOf(attempt[a].calls, "complete") # <<>>
        /\ CallsOf(attempt[a].calls, "complete")[1].st = "ok"
        /\ search[s].pc = "list"
        /\ orders # <<>>
        /\ orders[1].orderNo = attempt[a].orderNo
        /\ selectedOrderNo = attempt[a].orderNo

\* C32: every invocation of onCompleteOrder, in either controller, comes to
\* its end when the requests it awaits settle, and when it has ended at least
\* one message has been shown.
C32_TerminatesWithMessage ==
    /\ \A a \in AttemptIds :
         (attempt[a].pc \notin {"idle", "done"}) ~> (attempt[a].pc = "done")
    /\ [](\A a \in AttemptIds : attempt[a].pc = "done" => attempt[a].msgs # <<>>)

\* an attempt of the parent-SFC controller ended by the catch block, with its
\* message
C32_Witness ==
    \E a \in AttemptIds :
        /\ variant = "parent"
        /\ attempt[a].pc = "done"
        /\ attempt[a].calls # <<>>
        /\ attempt[a].calls[Len(attempt[a].calls)].kind = "sfcdetail"
        /\ attempt[a].calls[Len(attempt[a].calls)].st = "throw"
        /\ attempt[a].msgs = <<Msg("unexpected_error", EMPTY)>>

\* C33: in the basic controller, where the material is mandatory, a press of
\* Filter with an empty material or one of blanks only is rejected with a
\* validation message and issues no request; every list request of this
\* controller carries a material that is not empty.
C33_MaterialMandatory ==
    /\ [][(OnFilterPress /\ variant = "basic"
           /\ (filter.material = EMPTY \/ \A i \in 1..Len(filter.material) :
                                             filter.material[i] = " "))
          => Rejected]_vars
    /\ [](\A s \in SearchIds :
            (variant = "basic" /\ Requested(search[s]))
            => /\ "material" \in search[s].query.names
               /\ search[s].query.material # EMPTY
               /\ \E i \in 1..Len(search[s].query.material) :
                    search[s].query.material[i] # " ")

\* a material of blanks was rejected although a status, an order number and
\* both dates were entered
C33_Witness ==
    /\ variant = "basic"
    /\ validation = "material_mandatory"
    /\ filter.material = <<" ">>
    /\ filter.executionStatus = "NEW"
    /\ filter.dateFrom = 1 /\ filter.dateTo = 2
    /\ orders # <<>>
    /\ \A s \in SearchIds : ~Requested(search[s])

\* C34: in the parent-SFC controller, in every reachable state, a selected
\* order number that is not empty is the order number of a displayed row; it
\* is empty whenever no row is displayed.
C34_SelectionIsDisplayed ==
    (variant = "parent" /\ selectedOrderNo # EMPTY)
    => \E i \in 1..Len(orders) : orders[i].orderNo = selectedOrderNo

\* C39: in the worklist controller, when the worklist request is answered with
\* a non-success status the attempt issues no invalidate request, whatever the
\* body holds, and does not show the success message.
C39_WorklistStatusChecked ==
    \A a \in AttemptIds :
        (variant = "worklist" /\ attempt[a].calls # <<>>
         /\ attempt[a].calls[1].kind = "worklist" /\ attempt[a].calls[1].st = "notok")
        => /\ CallsOf(attempt[a].calls, "invalidate") = <<>>
           /\ ~Shown(attempt[a], "success")

\* the order numbers and the parent SFCs of the rows on display
DisplayedOrderNos == {orders[i].orderNo : i \in 1..Len(orders)}
DisplayedParentSFCs == {orders[i].parentSFC : i \in 1..Len(orders)}

\* C37: onDiscardOrder and onAdjustQty issue their request only for a row on
\* display: the discard names the order number, the set-quantity the parent
\* SFC, of a displayed row, and with no row to select no request is issued.
C37_PostOnlyForSelection ==
    [][\A a \in AttemptIds :
          /\ OnDiscardOrder(a)
             => \A k \in 1..Len(attempt'[a].calls) :
                   attempt'[a].calls[k].target \in DisplayedOrderNos
          /\ OnAdjustQty(a)
             => \A k \in 1..Len(attempt'[a].calls) :
                   attempt'[a].calls[k].target \in DisplayedParentSFCs]_vars

SearchesMade == {s \in SearchIds : search[s].calls # <<>>}
LaterSearch == CHOOSE s \in SearchesMade : \A x \in SearchesMade : x <= s
SearchOutcome(s) ==
    IF ListFailed(search[s]) THEN <<>>
    ELSE CombineRows(variant, search[s].list, search[s].enr)

\* C35: when onFilterPress was invoked again while an earlier search was in
\* flight, then once all the searches have settled the rows on display are the
\* result of the search invoked last.
C35_LaterSearchWins ==
    (Cardinality(SearchesMade) >= 2 /\ \A s \in SearchIds : search[s].pc = "idle")
    => orders = SearchOutcome(LaterSearch)

\* the calls of one kind to one target, summed over the attempts
RECURSIVE CallsAcrossAttempts(_, _, _)
CallsAcrossAttempts(ids, kind, target) ==
    IF ids = {} THEN 0
    ELSE LET a == CHOOSE x \in ids : TRUE
             Hits(c) == c.kind = kind /\ c.target = target
         IN  Len(SelectSeq(attempt[a].calls, Hits))
             + CallsAcrossAttempts(ids \ {a}, kind, target)
AttemptTargets(kind) ==
    UNION {{attempt[a].calls[k].target :
               k \in {j \in 1..Len(attempt[a].calls) : attempt[a].calls[j].kind = kind}} :
           a \in AttemptIds}

\* C36: when onCompleteOrder is invoked again for the same selection while the
\* first attempt is in flight, the attempts together send at most one
\* invalidate call per SFC and at most one completion call per order.
C36_CallsOnceAcrossAttempts ==
    /\ \A sfc \in AttemptTargets("invalidate") :
           CallsAcrossAttempts(AttemptIds, "invalidate", sfc) <= 1
    /\ \A o \in AttemptTargets("complete") :
           CallsAcrossAttempts(AttemptIds, "complete", o) <= 1

====
